---- MODULE Spec2Model ----
(***************************************************************************)
(* A model of the cost-based query optimizer of src/: the statistics       *)
(* catalog (models.py), the fluent Query builder (query.py), the cost      *)
(* model (cost_model.py), the plan tree (execution_plan.py) and the two    *)
(* plan builders QueryOptimizer.build_naive_plan / optimize                *)
(* (optimizer.py).                                                         *)
(*                                                                         *)
(* Numbers.  Costs are Python floats; here a cost is an integer number of  *)
(* cost units of 1/2000 (SEQ_PAGE_COST = 1.0 is 2000 units), which         *)
(* represents every cost the two builders compute exactly, except that the *)
(* logarithm of an in-memory sort is rounded down to an integer and the    *)
(* cost of a LIMIT to a whole unit.  A selectivity is an exact fraction    *)
(* [n |-> numerator, d |-> denominator], d > 0.  int(x) truncates toward   *)
(* zero, as Python's does.                                                 *)
(*                                                                         *)
(* Text.  A Python string built by an f-string or a join is a tuple of its *)
(* parts; names are TLA+ strings.  None is the string NoneStr for optional *)
(* strings and the empty tuple for every other Optional.                   *)
(*                                                                         *)
(* Exceptions.  A call that raises returns [error |-> <exception name>].   *)
(*                                                                         *)
(* Not modelled: ExecutionPlan.query_sql and planning_time_ms (wall clock),*)
(* and the renderers (to_sql, format, compare_plans).                      *)
(***************************************************************************)
EXTENDS Integers, Sequences, FiniteSets, TLC

(***************************************************************************)
(* Bounds of the model.                                                    *)
(***************************************************************************)
\* a query holds at most this many builder items (table references,
\* predicates, ORDER BY columns, a LIMIT)
MaxQuerySize == 4
\* the product of the row counts of the FROM tables stays below this, which
\* keeps every cost inside TLC's 32-bit integers
MaxRowProduct == 15000000

(***************************************************************************)
(* Optional values and Python truthiness.                                  *)
(***************************************************************************)
NoneStr == "None"

Truthy(s) == s # NoneStr /\ s # ""

Max(a, b) == IF a >= b THEN a ELSE b

Min(a, b) == IF a <= b THEN a ELSE b

\* int(n / d) for d > 0: truncation toward zero
TruncDiv(n, d) == IF n >= 0 THEN n \div d ELSE -((-n) \div d)

\* a fraction n/d with d > 0
Frac(n, d) == [n |-> n, d |-> d]

FracMul(a, b) == Frac(a.n * b.n, a.d * b.d)

FracLess(a, b) == a.n * b.d < b.n * a.d

One == Frac(1, 1)

(***************************************************************************)
(* cost_model.py: the cost constants, in cost units of 1/2000.             *)
(***************************************************************************)
PAGE_SIZE == 8192

SEQ_PAGE_COST == 2000

\* the number of cost units in a cost of 1.0
CostUnit == SEQ_PAGE_COST

RANDOM_PAGE_COST == 8000

CPU_TUPLE_COST == 20

CPU_INDEX_COST == 10

CPU_OPERATOR_COST == 5

WORK_MEM_KB == 4096

\* row_count of the synthetic Table that stands for a table the Schema lacks
UNKNOWN_ROW_COUNT == 1000

\* dataclass defaults of models.Table
DEFAULT_ROW_SIZE == 100

\* thresholds of the optimizer
HASH_JOIN_MIN_ROWS == 100

\* index scans are chosen below a combined selectivity of 0.2 = 1/5
INDEX_SEL_DEN == 5

(***************************************************************************)
(* models.py: Table, ColumnStats, Index, TableStats, Schema.               *)
(***************************************************************************)
Table(name, row_count, avg_row_size, total_pages) ==
    [name |-> name, row_count |-> row_count,
     avg_row_size |-> avg_row_size, total_pages |-> total_pages]

\* Table(name=..., row_count=1000): the other fields take their defaults
SyntheticTable(name) == Table(name, UNKNOWN_ROW_COUNT, DEFAULT_ROW_SIZE, 0)

ColumnStats(distinct_count, null_fraction, min_value, max_value) ==
    [distinct_count |-> distinct_count, null_fraction |-> null_fraction,
     min_value |-> min_value, max_value |-> max_value]

Index(name, table_name, columns, cardinality) ==
    [name |-> name, table_name |-> table_name, columns |-> columns,
     cardinality |-> cardinality]

\* column_stats is a function from column names; indexes a sequence
TableStats(table, column_stats, indexes) ==
    [table |-> table, column_stats |-> column_stats, indexes |-> indexes]

EmptyStats(table) == TableStats(table, <<>>, <<>>)

\* The catalog the planner runs against: a reduced copy of the shape of
\* create_simulated_schema.  categories has exactly 100 rows (the Hash Join
\* threshold), products.category_id has selectivity exactly 0.2 (the index
\* threshold), products.price has a numeric range, logs is a table a caller
\* put in Schema.tables without a Schema.table_stats entry and has no rows,
\* and the name "audit" is in no Schema at all.
SchemaTables ==
    [categories |-> Table("categories", 100, 150, 2),
     customers  |-> Table("customers", 150, 200, 4),
     products   |-> Table("products", 120, 180, 3),
     logs       |-> Table("logs", 0, 64, 0)]

SchemaStats ==
    [categories |->
        TableStats(SchemaTables.categories,
                   [id   |-> ColumnStats(100, Frac(0, 1), <<>>, <<>>),
                    name |-> ColumnStats(100, Frac(0, 1), <<>>, <<>>)],
                   <<Index("categories_pkey", "categories", <<"id">>, 100)>>),
     customers |->
        TableStats(SchemaTables.customers,
                   [id      |-> ColumnStats(150, Frac(0, 1), <<>>, <<>>),
                    country |-> ColumnStats(10, Frac(0, 1), <<>>, <<>>)],
                   <<Index("customers_pkey", "customers", <<"id">>, 150)>>),
     products |->
        TableStats(SchemaTables.products,
                   [id          |-> ColumnStats(120, Frac(0, 1), <<>>, <<>>),
                    category_id |-> ColumnStats(5, Frac(0, 1), <<>>, <<>>),
                    price       |-> ColumnStats(100, Frac(0, 1), <<0>>, <<100>>)],
                   <<Index("products_pkey", "products", <<"id">>, 120),
                     Index("idx_products_category", "products",
                           <<"category_id">>, 5)>>)]

\* The tables of create_simulated_schema that the scenarios with
\* categories, customers and orders use, with the statistics of the columns
\* and the indexes
SimulatedTables ==
    [categories |-> Table("categories", 100, 150, 2),
     customers |-> Table("customers", 10000, 200, 250),
     orders    |-> Table("orders", 50000, 120, 750)]

SimulatedStats ==
    [categories |->
        TableStats(SimulatedTables.categories,
                   [id   |-> ColumnStats(100, Frac(0, 1), <<>>, <<>>),
                    name |-> ColumnStats(100, Frac(0, 1), <<>>, <<>>)],
                   <<Index("categories_pkey", "categories", <<"id">>, 100)>>),
     customers |->
        TableStats(SimulatedTables.customers,
                   [id      |-> ColumnStats(10000, Frac(0, 1), <<>>, <<>>),
                    name    |-> ColumnStats(9500, Frac(0, 1), <<>>, <<>>),
                    email   |-> ColumnStats(10000, Frac(0, 1), <<>>, <<>>),
                    country |-> ColumnStats(10, Frac(0, 1), <<>>, <<>>)],
                   <<Index("customers_pkey", "customers", <<"id">>, 10000)>>),
     orders |->
        TableStats(SimulatedTables.orders,
                   [id          |-> ColumnStats(50000, Frac(0, 1), <<>>, <<>>),
                    customer_id |-> ColumnStats(10000, Frac(0, 1), <<>>, <<>>),
                    status      |-> ColumnStats(4, Frac(0, 1), <<>>, <<>>),
                    total       |-> ColumnStats(10000, Frac(0, 1),
                                                <<10>>, <<1010>>)],
                   <<Index("orders_pkey", "orders", <<"id">>, 50000),
                     Index("idx_orders_customer", "orders",
                           <<"customer_id">>, 10000)>>)]

\* <<>> while the planner runs against the reduced catalog; a record with
\* the query and the plan while it runs against the simulated schema
VARIABLE scenario

\* Schema.tables and Schema.table_stats of the optimizer's Schema
CurrentTables == IF scenario = <<>> THEN SchemaTables ELSE SimulatedTables

CurrentStats == IF scenario = <<>> THEN SchemaStats ELSE SimulatedStats

\* Schema.get_table / Schema.get_stats: dict.get, None when the key is absent
get_table(name) ==
    IF name \in DOMAIN CurrentTables THEN <<CurrentTables[name]>> ELSE <<>>

get_stats(name) ==
    IF name \in DOMAIN CurrentStats THEN <<CurrentStats[name]>> ELSE <<>>

(***************************************************************************)
(* Predicate values: [kind |-> "num", num |-> i], [kind |-> "str",         *)
(* str |-> <<parts>>] (the wildcard % is a part of its own),               *)
(* [kind |-> "list", items |-> <<...>>] or [kind |-> "none"].              *)
(***************************************************************************)
NumVal(i) == [kind |-> "num", num |-> i]

StrVal(parts) == [kind |-> "str", str |-> parts]

ListVal(items) == [kind |-> "list", items |-> items]

NoneVal == [kind |-> "none"]

RangeOps == {"<", "<=", ">", ">="}

\* get_selectivity without the guards on distinct_count and on the width of
\* the range, and without the defaults of the range operators
get_selectivity_unguarded(stats, column, operator, value) ==
    IF column \notin DOMAIN stats.column_stats THEN Frac(1, 10)
    ELSE LET cs == stats.column_stats[column] IN
      IF operator = "=" THEN Frac(1, cs.distinct_count)
      ELSE IF /\ operator \in RangeOps
              /\ cs.min_value # <<>>
              /\ cs.max_value # <<>>
              /\ value.kind = "num"
           THEN Frac(value.num - cs.min_value[1],
                     cs.max_value[1] - cs.min_value[1])
           ELSE Frac(1, 10)

\* TableStats.get_selectivity
get_selectivity(stats, column, operator, value) ==
    IF column \notin DOMAIN stats.column_stats THEN Frac(1, 10)
    ELSE LET cs == stats.column_stats[column] IN
      CASE operator = "=" ->
             IF cs.distinct_count > 0 THEN Frac(1, cs.distinct_count)
             ELSE Frac(1, 100)
        [] operator \in RangeOps ->
             IF /\ cs.min_value # <<>>
                /\ cs.max_value # <<>>
                /\ value.kind = "num"
                /\ cs.max_value[1] - cs.min_value[1] > 0
             THEN LET range_size == cs.max_value[1] - cs.min_value[1] IN
                  IF operator \in {"<", "<="}
                  THEN Frac(value.num - cs.min_value[1], range_size)
                  ELSE Frac(cs.max_value[1] - value.num, range_size)
             ELSE Frac(33, 100)
        [] operator = "LIKE" ->
             IF /\ value.kind = "str"
                /\ ~ (Len(value.str) > 0 /\ value.str[1] = "%")
             THEN Frac(1, 10)
             ELSE Frac(1, 2)
        [] operator = "IN" ->
             IF value.kind = "list" /\ cs.distinct_count > 0
             THEN IF Len(value.items) >= cs.distinct_count THEN One
                  ELSE Frac(Len(value.items), cs.distinct_count)
             ELSE Frac(1, 10)
        [] operator = "IS NULL" -> cs.null_fraction
        [] operator = "IS NOT NULL" ->
             Frac(cs.null_fraction.d - cs.null_fraction.n, cs.null_fraction.d)
        [] OTHER -> Frac(1, 10)

\* the score find_best_index gives one index: the inner loop over columns,
\* from position i with the score so far
RECURSIVE IndexScore(_, _, _, _, _)
IndexScore(index, columns, operators, i, score) ==
    IF i > Len(columns) THEN score
    ELSE IF i <= Len(index.columns) /\ index.columns[i] = columns[i]
         THEN IF i <= Len(operators) /\ operators[i] \in {"=", "IN"}
              THEN IndexScore(index, columns, operators, i + 1, score + 2)
              ELSE IF i <= Len(operators) /\ operators[i] \in RangeOps
                   THEN score + 1
                   ELSE IndexScore(index, columns, operators, i + 1, score)
         ELSE score

\* the outer loop of find_best_index, from index k with the best so far
RECURSIVE BestIndexFrom(_, _, _, _, _, _)
BestIndexFrom(indexes, columns, operators, k, best_index, best_score) ==
    IF k > Len(indexes) THEN best_index
    ELSE LET score == IndexScore(indexes[k], columns, operators, 1, 0) IN
         IF score > best_score
         THEN BestIndexFrom(indexes, columns, operators, k + 1,
                            <<indexes[k]>>, score)
         ELSE BestIndexFrom(indexes, columns, operators, k + 1,
                            best_index, best_score)

\* TableStats.find_best_index: <<>> for None, else <<index>>
find_best_index(stats, columns, operators) ==
    BestIndexFrom(stats.indexes, columns, operators, 1, <<>>, 0)

(***************************************************************************)
(* query.py: Predicate, JoinCondition, TableReference, Query.              *)
(***************************************************************************)
Predicate(table, column, operator, value, logical_op) ==
    [table |-> table, column |-> column, operator |-> operator,
     value |-> value, logical_op |-> logical_op]

\* Predicate.get_full_column
get_full_column(pred) ==
    IF Truthy(pred.table) THEN pred.table \o "." \o pred.column
    ELSE pred.column

\* Predicate.__str__: the parts of the rendered predicate.  Rendering an IN
\* predicate iterates its value and a BETWEEN predicate subscripts it, which
\* raises TypeError for a value that is None or a number.
PredStrRaises(pred) ==
    \/ pred.operator = "IN" /\ pred.value.kind \in {"none", "num"}
    \/ pred.operator = "BETWEEN" /\ pred.value.kind \in {"none", "num"}

PredStr(pred) ==
    IF pred.operator \in {"IS NULL", "IS NOT NULL"}
    THEN <<get_full_column(pred), pred.operator>>
    ELSE <<get_full_column(pred), pred.operator, pred.value>>

JoinCondition(left_table, left_column, right_table, right_column) ==
    [left_table |-> left_table, left_column |-> left_column,
     right_table |-> right_table, right_column |-> right_column,
     join_type |-> "INNER JOIN"]

TableReference(name, alias) == [name |-> name, alias |-> alias]

\* TableReference.get_ref
get_ref(t) == IF Truthy(t.alias) THEN t.alias ELSE t.name

\* Query(): the dataclass defaults
EmptyQuery ==
    [select_columns |-> <<>>, tables |-> <<>>, joins |-> <<>>,
     predicates |-> <<>>, group_by_columns |-> <<>>,
     order_by_columns |-> <<>>, limit_value |-> <<>>, offset_value |-> <<>>]

\* A column argument "a.b.c" is the tuple <<"a", "b", "c">> of the parts
\* between its dots; DotJoin puts the dots back.
RECURSIVE DotJoin(_)
DotJoin(parts) ==
    IF Len(parts) = 0 THEN ""
    ELSE IF Len(parts) = 1 THEN parts[1]
    ELSE parts[1] \o "." \o DotJoin(Tail(parts))

HasDot(col) == Len(col) > 1

\* col.split(".", 1)
SplitFirstDot(col) == <<col[1], DotJoin(Tail(col))>>

\* Query.from_table
from_table(q, table, alias) ==
    [q EXCEPT !.tables = Append(@, TableReference(table, alias))]

\* join that records the qualifier of right_col as the right side of the
\* JoinCondition
join_right_qualifier(q, table, alias, left_col, right_col) ==
    [q EXCEPT
       !.joins = Append(@, JoinCondition(
                     IF HasDot(left_col) THEN SplitFirstDot(left_col)[1]
                     ELSE IF Len(q.tables) > 0 THEN get_ref(q.tables[1])
                          ELSE "",
                     IF HasDot(left_col) THEN SplitFirstDot(left_col)[2]
                     ELSE DotJoin(left_col),
                     IF HasDot(right_col) THEN SplitFirstDot(right_col)[1]
                     ELSE IF Truthy(alias) THEN alias ELSE table,
                     IF HasDot(right_col) THEN SplitFirstDot(right_col)[2]
                     ELSE DotJoin(right_col))),
       !.tables = Append(@, TableReference(table, alias))]

\* Query.join
join(q, table, alias, left_col, right_col) ==
    LET left_table ==
            IF HasDot(left_col) THEN SplitFirstDot(left_col)[1]
            ELSE IF Len(q.tables) > 0 THEN get_ref(q.tables[1]) ELSE ""
        left_column ==
            IF HasDot(left_col) THEN SplitFirstDot(left_col)[2]
            ELSE DotJoin(left_col)
        right_column ==
            IF HasDot(right_col) THEN SplitFirstDot(right_col)[2]
            ELSE DotJoin(right_col)
    IN [q EXCEPT
          !.joins = Append(@, JoinCondition(
                        left_table, left_column,
                        IF Truthy(alias) THEN alias ELSE table,
                        right_column)),
          !.tables = Append(@, TableReference(table, alias))]

\* Query.where
where(q, column, operator, value, logical_op) ==
    LET table == IF HasDot(column) THEN SplitFirstDot(column)[1] ELSE NoneStr
        col   == IF HasDot(column) THEN SplitFirstDot(column)[2]
                 ELSE DotJoin(column)
    IN [q EXCEPT !.predicates =
            Append(@, Predicate(table, col, operator, value, logical_op))]

\* Query.order_by
order_by(q, column, desc) ==
    [q EXCEPT !.order_by_columns = Append(@, <<column, desc>>)]

\* Query.limit
limit(q, n) == [q EXCEPT !.limit_value = <<n>>]

\* Query.and_where
and_where(q, column, operator, value) ==
    where(q, column, operator, value, "AND")

\* Query.or_where
or_where(q, column, operator, value) ==
    where(q, column, operator, value, "OR")

\* Query.group_by(*columns)
group_by(q, columns) == [q EXCEPT !.group_by_columns = @ \o columns]

\* Query.offset
offset(q, n) == [q EXCEPT !.offset_value = <<n>>]

\* Query.get_table_name: the name of the first table whose ref or name is
\* ref, else ref itself
get_table_name(q, ref) ==
    LET hits == {i \in 1..Len(q.tables) :
                    get_ref(q.tables[i]) = ref \/ q.tables[i].name = ref}
    IN IF hits = {} THEN ref
       ELSE q.tables[CHOOSE i \in hits : \A j \in hits : i <= j].name

(***************************************************************************)
(* cost_model.py: OperationCost and the estimators of CostModel.           *)
(***************************************************************************)
OperationCost(startup_cost, total_cost, rows, width) ==
    [startup_cost |-> startup_cost, total_cost |-> total_cost,
     rows |-> rows, width |-> width]

\* int(a * b / c) for b >= 0 and c > 0, computed without a large product
MulDiv(a, b, c) ==
    IF a >= 0 THEN (a \div c) * b + ((a % c) * b) \div c
    ELSE -(((-a) \div c) * b + (((-a) % c) * b) \div c)

\* int(rows * selectivity)
ScaleRows(rows, selectivity) == TruncDiv(rows * selectivity.n, selectivity.d)

\* floor(log2(n)) for n >= 1
RECURSIVE Log2Floor(_)
Log2Floor(n) == IF n < 2 THEN 0 ELSE 1 + Log2Floor(n \div 2)

\* ceil(log2(n)) for n >= 1
CeilLog2(n) == IF n <= 1 THEN 0 ELSE 1 + Log2Floor(n - 1)

\* int(n ** 0.25) for n >= 0
RECURSIVE FourthRootFrom(_, _)
FourthRootFrom(n, k) ==
    IF (k + 1) * (k + 1) * (k + 1) * (k + 1) > n THEN k
    ELSE FourthRootFrom(n, k + 1)

FourthRoot(n) == FourthRootFrom(n, 0)

\* CostModel.estimate_seq_scan
estimate_seq_scan(table, selectivity) ==
    LET pages    == Max(1, table.total_pages)
        rows     == table.row_count
        io_cost  == pages * SEQ_PAGE_COST
        cpu_cost == rows * CPU_TUPLE_COST
    IN OperationCost(0, io_cost + cpu_cost, ScaleRows(rows, selectivity),
                     table.avg_row_size)

\* CostModel.estimate_index_scan
estimate_index_scan(table, index, selectivity) ==
    LET rows           == table.row_count
        output_rows    == Max(1, ScaleRows(rows, selectivity))
        tree_height    == IF index.cardinality > 0
                          THEN Max(1, 2 + FourthRoot(index.cardinality))
                          ELSE 3
        index_startup  == tree_height * RANDOM_PAGE_COST
        cost_per_tuple == RANDOM_PAGE_COST + CPU_INDEX_COST
        heap_cost      == (output_rows * RANDOM_PAGE_COST) \div 2
    IN OperationCost(index_startup,
                     index_startup + output_rows * cost_per_tuple + heap_cost,
                     output_rows, table.avg_row_size)

\* CostModel.estimate_nested_loop_join; inner_rescan_cost = 0 is what a
\* caller that leaves the argument out passes
estimate_nested_loop_join(outer, inner, inner_rescan_cost) ==
    LET startup == outer.startup_cost + inner.startup_cost
        rescan  == IF inner_rescan_cost = 0
                   THEN TruncDiv(inner.total_cost * 9, 10)
                   ELSE inner_rescan_cost
        base    == outer.total_cost + inner.total_cost
        loops   == IF outer.rows > 1 THEN (outer.rows - 1) * rescan ELSE 0
        cpu     == outer.rows * inner.rows * CPU_OPERATOR_COST
    IN OperationCost(startup, base + loops + cpu,
                     Max(1, TruncDiv(outer.rows * inner.rows, 10)),
                     outer.width + inner.width)

\* CostModel.estimate_hash_join with join_selectivity = 0.1
estimate_hash_join(outer, inner) ==
    LET startup    == outer.startup_cost + inner.total_cost
        hash_build == inner.rows * CPU_TUPLE_COST * 5
        probe_cost == outer.total_cost + outer.rows * CPU_TUPLE_COST * 2
    IN OperationCost(startup, startup + hash_build + probe_cost,
                     Max(1, TruncDiv(outer.rows * inner.rows, 10)),
                     outer.width + inner.width)

\* CostModel.estimate_sort with work_mem_kb = 4096
estimate_sort(input_cost) ==
    LET rows      == input_cost.rows
        bytes     == rows * input_cost.width
        mem_bytes == WORK_MEM_KB * 1024
        in_memory == bytes <= mem_bytes
        sort_cost ==
            IF in_memory
            THEN rows * Max(1, Log2Floor(Max(rows, 2))) * CPU_OPERATOR_COST * 2
            ELSE LET ratio  == (bytes + mem_bytes - 1) \div mem_bytes
                     passes == Max(1, CeilLog2(ratio))
                 IN \* passes * (bytes / PAGE_SIZE) * SEQ_PAGE_COST * 2
                    MulDiv(bytes, passes * SEQ_PAGE_COST * 2, PAGE_SIZE)
        startup == input_cost.total_cost + sort_cost
    IN OperationCost(startup, startup, rows, input_cost.width)

\* estimate_limit that passes through only an input without rows
estimate_limit_scaled(input_cost, n) ==
    IF input_cost.rows <= 0 THEN input_cost
    ELSE OperationCost(
            input_cost.startup_cost,
            input_cost.startup_cost +
                MulDiv(input_cost.total_cost - input_cost.startup_cost,
                       n, input_cost.rows),
            n, input_cost.width)

\* CostModel.estimate_limit; the model's limits are >= 0, so the division by
\* input_cost.rows is by a positive number
estimate_limit(input_cost, n) ==
    IF input_cost.rows <= n THEN input_cost
    ELSE OperationCost(
            input_cost.startup_cost,
            input_cost.startup_cost +
                MulDiv(input_cost.total_cost - input_cost.startup_cost,
                       n, input_cost.rows),
            n, input_cost.width)

(***************************************************************************)
(* execution_plan.py: PlanNode and ExecutionPlan.                          *)
(***************************************************************************)
\* PlanNode(operator) with every other field at its dataclass default
PlanNode(operator) ==
    [operator |-> operator, table |-> NoneStr, alias |-> NoneStr,
     index_name |-> NoneStr, startup_cost |-> 0, total_cost |-> 0,
     estimated_rows |-> 0, width |-> 0, filter_condition |-> <<>>,
     join_condition |-> NoneStr, sort_keys |-> <<>>, children |-> <<>>,
     extra_info |-> <<>>]

\* a PlanNode that takes its four cost fields from an OperationCost
CostedNode(operator, cost) ==
    [PlanNode(operator) EXCEPT !.startup_cost = cost.startup_cost,
                               !.total_cost = cost.total_cost,
                               !.estimated_rows = cost.rows,
                               !.width = cost.width]

\* OperationCost(node.startup_cost, node.total_cost, node.estimated_rows,
\* node.width)
CostOf(node) ==
    OperationCost(node.startup_cost, node.total_cost, node.estimated_rows,
                  node.width)

\* PlanNode.add_child
add_child(node, child) == [node EXCEPT !.children = Append(@, child)]

\* ExecutionPlan; error is NoneStr for a plan that was returned
ExecutionPlan(root, is_optimized, optimization_notes) ==
    [error |-> NoneStr, root |-> root, is_optimized |-> is_optimized,
     optimization_notes |-> optimization_notes]

\* the outcome of a call that raised
Raised(exception) ==
    [error |-> exception, root |-> <<>>, is_optimized |-> FALSE,
     optimization_notes |-> <<>>]

(***************************************************************************)
(* optimizer.py: QueryOptimizer.  Every helper that appends to             *)
(* self.optimization_notes takes the buffer and returns it with its value. *)
(***************************************************************************)
\* Query.to_sql raises exactly when rendering one of the predicates does
to_sql_raises(q) ==
    \E i \in 1..Len(q.predicates) : PredStrRaises(q.predicates[i])

\* " AND ".join(str(p) for p in predicates): the rendered conjuncts
FilterCondition(predicates) ==
    [i \in 1..Len(predicates) |-> PredStr(predicates[i])]

\* [f"{col} {'DESC' if desc else 'ASC'}" for col, desc in order_by_columns]
SortKeys(q) ==
    [i \in 1..Len(q.order_by_columns) |->
        <<q.order_by_columns[i][1],
          IF q.order_by_columns[i][2] THEN "DESC" ELSE "ASC">>]

\* f"{join.left_table}.{join.left_column} = {join.right_table}.{...}"
JoinCondStr(j) ==
    j.left_table \o "." \o j.left_column \o " = " \o
    j.right_table \o "." \o j.right_column

\* the Sort node build_naive_plan and _add_final_operators put over a plan
SortNode(current, q) ==
    add_child([CostedNode("Sort", estimate_sort(CostOf(current)))
                  EXCEPT !.sort_keys = SortKeys(q)],
              current)

\* the table build_naive_plan scans for a table reference
NaiveTable(t) ==
    IF get_table(t.name) = <<>> THEN SyntheticTable(t.name)
    ELSE get_table(t.name)[1]

\* the Seq Scan node build_naive_plan builds for a table reference
NaiveScan(t) ==
    [CostedNode("Seq Scan", estimate_seq_scan(NaiveTable(t), One))
        EXCEPT !.table = t.name, !.alias = t.alias]

\* NaiveJoinNode with the join algorithm of the optimized builder
NaiveJoinNodeHashed(current_plan, inner_plan, j) ==
    LET big == current_plan.estimated_rows > HASH_JOIN_MIN_ROWS /\
               inner_plan.estimated_rows > HASH_JOIN_MIN_ROWS
        join_cost == IF big
                     THEN estimate_hash_join(CostOf(current_plan),
                                             CostOf(inner_plan))
                     ELSE estimate_nested_loop_join(
                              CostOf(current_plan), CostOf(inner_plan), 0)
        join_node == [CostedNode(IF big THEN "Hash Join" ELSE "Nested Loop",
                                 join_cost)
                         EXCEPT !.join_condition = JoinCondStr(j)]
    IN add_child(add_child(join_node, current_plan), inner_plan)

\* the Nested Loop node one iteration of the loop of build_naive_plan builds
\* over the running plan and the scan of the joined table
NaiveJoinNode(current_plan, inner_plan, j) ==
    LET join_cost == estimate_nested_loop_join(
                         CostOf(current_plan), CostOf(inner_plan), 0)
        join_node == [CostedNode("Nested Loop", join_cost)
                         EXCEPT !.join_condition = JoinCondStr(j)]
    IN add_child(add_child(join_node, current_plan), inner_plan)

\* the loop over query.joins of build_naive_plan, from join i on; indexing
\* query.tables[i + 1] past the end of the list raises IndexError
RECURSIVE NaiveJoins(_, _, _)
NaiveJoins(q, i, current_plan) ==
    IF i > Len(q.joins) THEN [error |-> NoneStr, node |-> current_plan]
    ELSE IF i + 1 > Len(q.tables)
         THEN [error |-> "IndexError", node |-> current_plan]
    ELSE NaiveJoins(q, i + 1,
                    NaiveJoinNode(current_plan, NaiveScan(q.tables[i + 1]),
                                  q.joins[i]))

\* the Limit node of build_naive_plan
NaiveLimitNode(current, n) ==
    add_child([CostedNode("Limit", estimate_limit(CostOf(current), n))
                  EXCEPT !.extra_info = [Rows |-> n]],
              current)

\* QueryOptimizer.build_naive_plan
build_naive_plan(q) ==
    IF Len(q.tables) = 0
    THEN IF to_sql_raises(q) THEN Raised("TypeError")
         ELSE ExecutionPlan(PlanNode("Result"), FALSE, <<>>)
    ELSE IF to_sql_raises(q) THEN Raised("TypeError")
    ELSE LET first == NaiveScan(q.tables[1])
             scan  == IF Len(q.predicates) > 0
                      THEN [first EXCEPT !.filter_condition =
                                            FilterCondition(q.predicates)]
                      ELSE first
             joined == NaiveJoins(q, 1, scan)
         IN IF joined.error # NoneStr THEN Raised(joined.error)
            ELSE LET sorted  == IF Len(q.order_by_columns) > 0
                                THEN SortNode(joined.node, q)
                                ELSE joined.node
                     limited == IF q.limit_value # <<>>
                                THEN NaiveLimitNode(sorted, q.limit_value[1])
                                ELSE sorted
                 IN ExecutionPlan(limited, FALSE, <<>>)

\* the keys _assign_predicates_to_tables creates: every ref and every name
PredicateKeys(q) ==
    {get_ref(q.tables[i]) : i \in 1..Len(q.tables)} \cup
    {q.tables[i].name : i \in 1..Len(q.tables)}

\* the loop over query.predicates of _assign_predicates_to_tables, from
\* predicate i on
RECURSIVE AssignFrom(_, _, _, _)
AssignFrom(q, i, result, notes) ==
    IF i > Len(q.predicates)
    THEN [error |-> NoneStr, result |-> result, notes |-> notes]
    ELSE LET pred == q.predicates[i] IN
         IF ~ Truthy(pred.table) THEN AssignFrom(q, i + 1, result, notes)
         ELSE LET target == IF pred.table \in DOMAIN result THEN pred.table
                            ELSE get_table_name(q, pred.table)
              IN IF target \notin DOMAIN result
                 THEN AssignFrom(q, i + 1, result, notes)
                 ELSE IF PredStrRaises(pred)
                 THEN [error |-> "TypeError", result |-> result,
                       notes |-> notes]
                 ELSE AssignFrom(q, i + 1,
                        [result EXCEPT ![target] = Append(@, pred)],
                        Append(notes, <<"Pushed predicate", PredStr(pred),
                                        "down to table", target>>))

\* QueryOptimizer._assign_predicates_to_tables
assign_predicates_to_tables(q, notes) ==
    AssignFrom(q, 1, [k \in PredicateKeys(q) |-> <<>>], notes)

\* the product of the selectivities of a list of predicates, from i on
RECURSIVE SelectivityFrom(_, _, _, _)
SelectivityFrom(stats, predicates, i, selectivity) ==
    IF i > Len(predicates) THEN selectivity
    ELSE SelectivityFrom(stats, predicates, i + 1,
            FracMul(selectivity,
                    get_selectivity(stats, predicates[i].column,
                                    predicates[i].operator,
                                    predicates[i].value)))

\* the (ref, effective size) pair _optimize_join_order gives a table
TableSize(t, table_predicates) ==
    LET table == get_table(t.name)
        stats == get_stats(t.name)
        ref   == get_ref(t)
    IN IF table = <<>> THEN <<ref, UNKNOWN_ROW_COUNT>>
       ELSE LET selectivity ==
                    IF ref \in DOMAIN table_predicates /\ stats # <<>>
                    THEN SelectivityFrom(stats[1], table_predicates[ref], 1, One)
                    ELSE One
                effective_size == ScaleRows(table[1].row_count, selectivity)
            IN <<ref, Max(1, effective_size)>>

\* InsertSorted with a sort that is not stable: the pair goes before the
\* pairs of equal size
RECURSIVE InsertSortedUnstable(_, _)
InsertSortedUnstable(sorted, pair) ==
    IF Len(sorted) = 0 THEN <<pair>>
    ELSE IF sorted[Len(sorted)][2] < pair[2] THEN Append(sorted, pair)
    ELSE Append(InsertSortedUnstable(SubSeq(sorted, 1, Len(sorted) - 1), pair),
                sorted[Len(sorted)])

\* inserts a pair after the last pair of a sorted list that is not larger
RECURSIVE InsertSorted(_, _)
InsertSorted(sorted, pair) ==
    IF Len(sorted) = 0 THEN <<pair>>
    ELSE IF sorted[Len(sorted)][2] <= pair[2] THEN Append(sorted, pair)
    ELSE Append(InsertSorted(SubSeq(sorted, 1, Len(sorted) - 1), pair),
                sorted[Len(sorted)])

\* list.sort(key=lambda x: x[1]): a stable sort by the second component
RECURSIVE SortBySize(_)
SortBySize(pairs) ==
    IF Len(pairs) = 0 THEN <<>>
    ELSE InsertSorted(SortBySize(SubSeq(pairs, 1, Len(pairs) - 1)),
                      pairs[Len(pairs)])

\* QueryOptimizer._optimize_join_order (estimated_cost, which nothing reads,
\* is left out of the JoinOrder)
optimize_join_order(q, table_predicates, notes) ==
    LET original_order == [i \in 1..Len(q.tables) |-> get_ref(q.tables[i])]
    IN IF Len(q.tables) <= 1
       THEN [tables |-> original_order, intermediate_sizes |-> <<>>,
             notes |-> notes]
       ELSE LET table_sizes ==
                    SortBySize([i \in 1..Len(q.tables) |->
                                   TableSize(q.tables[i], table_predicates)])
                new_order == [i \in 1..Len(table_sizes) |-> table_sizes[i][1]]
            IN [tables |-> new_order,
                intermediate_sizes |->
                    [i \in 1..Len(table_sizes) |-> table_sizes[i][2]],
                notes |->
                    IF original_order # new_order
                    THEN Append(notes, <<"Reordered joins", new_order,
                                         "original", original_order>>)
                    ELSE notes]

\* the predicates _build_scan_node reads for a table reference
ScanPredicates(table_ref, actual_name, table_predicates) ==
    LET by_ref == IF table_ref \in DOMAIN table_predicates
                  THEN table_predicates[table_ref] ELSE <<>>
    IN IF Len(by_ref) > 0 THEN by_ref
       ELSE IF actual_name \in DOMAIN table_predicates
            THEN table_predicates[actual_name] ELSE <<>>

\* the alias _build_scan_node gives its node
ScanAlias(table_ref, actual_name) ==
    IF table_ref # actual_name THEN table_ref ELSE NoneStr

\* BelowIndexThreshold with selectivity <= 0.2
AtMostIndexThreshold(selectivity) ==
    ~ FracLess(Frac(1, INDEX_SEL_DEN), selectivity)

\* is selectivity < 0.2
BelowIndexThreshold(selectivity) ==
    FracLess(selectivity, Frac(1, INDEX_SEL_DEN))

\* QueryOptimizer._build_scan_node; a table that is in Schema.tables but has
\* no Schema.table_stats entry has stats = None, and reading the selectivity
\* of a predicate from it raises AttributeError
build_scan_node(q, table_ref, table_predicates, notes) ==
    LET actual_name == get_table_name(q, table_ref)
        found       == get_table(actual_name)
        table       == IF found = <<>> THEN SyntheticTable(actual_name)
                       ELSE found[1]
        stats       == IF found = <<>> THEN <<EmptyStats(table)>>
                       ELSE get_stats(actual_name)
        predicates  == ScanPredicates(table_ref, actual_name, table_predicates)
    IN IF Len(predicates) > 0 /\ stats = <<>>
       THEN [error |-> "AttributeError", node |-> <<>>, notes |-> notes]
       ELSE
       LET selectivity == IF Len(predicates) > 0
                          THEN SelectivityFrom(stats[1], predicates, 1, One)
                          ELSE One
           best_index  ==
               IF Len(predicates) > 0
               THEN find_best_index(stats[1],
                       [i \in 1..Len(predicates) |-> predicates[i].column],
                       [i \in 1..Len(predicates) |-> predicates[i].operator])
               ELSE <<>>
           use_index == best_index # <<>> /\ BelowIndexThreshold(selectivity)
           scan ==
               IF use_index
               THEN [CostedNode("Index Scan",
                        estimate_index_scan(table, best_index[1], selectivity))
                       EXCEPT !.table = actual_name,
                              !.alias = ScanAlias(table_ref, actual_name),
                              !.index_name = best_index[1].name]
               ELSE [CostedNode("Seq Scan",
                        estimate_seq_scan(table, selectivity))
                       EXCEPT !.table = actual_name,
                              !.alias = ScanAlias(table_ref, actual_name)]
           node == IF Len(predicates) > 0
                   THEN [scan EXCEPT !.filter_condition =
                                        FilterCondition(predicates)]
                   ELSE scan
           notes2 ==
               IF use_index
               THEN Append(notes, <<"Using index", best_index[1].name, "on",
                                    actual_name, "selectivity", selectivity>>)
               ELSE IF best_index # <<>>
                    THEN Append(notes, <<"Seq scan on", actual_name,
                                         "index not worth it for",
                                         selectivity, "selectivity">>)
                    ELSE notes
       IN [error |-> NoneStr, node |-> node, notes |-> notes2]

\* find_join_condition that compares the right side of a join with the
\* table's ref only
find_join_condition_by_ref(q, table_ref) ==
    LET hits == {i \in 1..Len(q.joins) : q.joins[i].right_table = table_ref}
    IN IF hits = {} THEN NoneStr
       ELSE JoinCondStr(q.joins[CHOOSE i \in hits : \A j \in hits : i <= j])

\* QueryOptimizer._find_join_condition: NoneStr when no declared join has
\* the table on its right side
find_join_condition(q, table_ref) ==
    LET actual_name == get_table_name(q, table_ref)
        hits == {i \in 1..Len(q.joins) :
                    q.joins[i].right_table \in {table_ref, actual_name}}
    IN IF hits = {} THEN NoneStr
       ELSE JoinCondStr(q.joins[CHOOSE i \in hits : \A j \in hits : i <= j])

\* UseHash with the threshold itself counted as large
UseHashAtLeast(outer, inner) ==
    inner.estimated_rows >= HASH_JOIN_MIN_ROWS /\
    outer.estimated_rows >= HASH_JOIN_MIN_ROWS

\* is the join of these two inputs a Hash Join
UseHash(outer, inner) ==
    inner.estimated_rows > HASH_JOIN_MIN_ROWS /\
    outer.estimated_rows > HASH_JOIN_MIN_ROWS

\* QueryOptimizer._build_join_node
build_join_node(outer, inner, join_cond, notes) ==
    IF UseHash(outer, inner)
    THEN LET join_cost == estimate_hash_join(CostOf(outer), CostOf(inner))
             hash_node ==
                 add_child(
                   CostedNode("Hash",
                      OperationCost(inner.total_cost,
                                    TruncDiv(inner.total_cost * 11, 10),
                                    inner.estimated_rows, inner.width)),
                   inner)
             join_node == [CostedNode("Hash Join", join_cost)
                             EXCEPT !.join_condition = join_cond]
         IN [node |-> add_child(add_child(join_node, outer), hash_node),
             notes |-> Append(notes, <<"Using Hash Join">>)]
    ELSE LET join_cost == estimate_nested_loop_join(CostOf(outer),
                                                    CostOf(inner), 0)
             join_node == [CostedNode("Nested Loop", join_cost)
                             EXCEPT !.join_condition = join_cond]
         IN [node |-> add_child(add_child(join_node, outer), inner),
             notes |-> Append(notes, <<"Using Nested Loop", "small table",
                                       inner.estimated_rows>>)]

\* the loop of _build_physical_plan over join_order.tables, from table i on
RECURSIVE JoinFrom(_, _, _, _, _, _)
JoinFrom(q, table_predicates, order, i, current_plan, notes) ==
    IF i > Len(order)
    THEN [error |-> NoneStr, node |-> current_plan, notes |-> notes]
    ELSE LET inner == build_scan_node(q, order[i], table_predicates, notes)
         IN IF inner.error # NoneStr THEN inner
            ELSE LET joined == build_join_node(
                                  current_plan, inner.node,
                                  find_join_condition(q, order[i]),
                                  inner.notes)
                 IN JoinFrom(q, table_predicates, order, i + 1,
                             joined.node, joined.notes)

\* QueryOptimizer._build_physical_plan
build_physical_plan(q, table_predicates, join_order, notes) ==
    IF Len(join_order.tables) = 0
    THEN [error |-> NoneStr, node |-> PlanNode("Result"), notes |-> notes]
    ELSE LET first == build_scan_node(q, join_order.tables[1],
                                      table_predicates, notes)
         IN IF first.error # NoneStr THEN first
            ELSE JoinFrom(q, table_predicates, join_order.tables, 2,
                          first.node, first.notes)

\* add_final_operators with the Limit placed first and the Sort above it
add_final_operators_sort_last(plan, q, notes) ==
    LET limited == IF q.limit_value = <<>> THEN plan
                   ELSE add_child(
                          [CostedNode("Limit",
                                      estimate_limit(CostOf(plan),
                                                     q.limit_value[1]))
                             EXCEPT !.estimated_rows =
                                       Min(q.limit_value[1],
                                           plan.estimated_rows),
                                    !.extra_info =
                                       [Rows |-> q.limit_value[1]]],
                          plan)
        notes2 == IF q.limit_value = <<>> THEN notes
                  ELSE Append(notes, <<"LIMIT", q.limit_value[1],
                                       "reduces cost by early termination">>)
    IN [node |-> IF Len(q.order_by_columns) > 0 THEN SortNode(limited, q)
                 ELSE limited,
        notes |-> notes2]

\* QueryOptimizer._add_final_operators
add_final_operators(plan, q, notes) ==
    LET sorted == IF Len(q.order_by_columns) > 0 THEN SortNode(plan, q)
                  ELSE plan
    IN IF q.limit_value = <<>> THEN [node |-> sorted, notes |-> notes]
       ELSE LET n          == q.limit_value[1]
                limit_cost == estimate_limit(CostOf(sorted), n)
                limit_node ==
                    [CostedNode("Limit", limit_cost)
                       EXCEPT !.estimated_rows = Min(n, sorted.estimated_rows),
                              !.extra_info = [Rows |-> n]]
            IN [node |-> add_child(limit_node, sorted),
                notes |-> Append(notes, <<"LIMIT", n,
                                   "reduces cost by early termination">>)]

\* the end of optimize: query.to_sql() and the ExecutionPlan it returns
ReturnPlan(q, final) ==
    IF to_sql_raises(q)
    THEN [plan |-> Raised("TypeError"), buffer |-> final.notes]
    ELSE [plan |-> ExecutionPlan(final.node, TRUE, final.notes),
          buffer |-> final.notes]

\* optimize from the call of _add_final_operators on
FinishPlan(q, physical) ==
    IF physical.error # NoneStr
    THEN [plan |-> Raised(physical.error), buffer |-> physical.notes]
    ELSE ReturnPlan(q, add_final_operators(physical.node, q, physical.notes))

\* optimize from the call of _build_physical_plan on
PlanJoins(q, assigned, join_order) ==
    FinishPlan(q, build_physical_plan(q, assigned.result, join_order,
                                      join_order.notes))

\* optimize from the call of _optimize_join_order on
PlanOrder(q, assigned) ==
    IF assigned.error # NoneStr
    THEN [plan |-> Raised(assigned.error), buffer |-> assigned.notes]
    ELSE PlanJoins(q, assigned,
                   optimize_join_order(q, assigned.result, assigned.notes))

\* QueryOptimizer.optimize: the returned plan (or the exception) and the
\* optimizer's notes buffer when the call ends
optimize(q) == PlanOrder(q, assign_predicates_to_tables(q, <<>>))

(***************************************************************************)
(* The program: a caller builds one Query with the fluent builder and then *)
(* hands it to one QueryOptimizer, calling build_naive_plan and optimize   *)
(* in any order (main.py, run_demo_mode and interactive_mode).             *)
(*   query      the Query under construction                               *)
(*   naivePlan  <<>> or <<the outcome of the last build_naive_plan call>>  *)
(*   optPlan    <<>> or <<the outcome of the last optimize call>>          *)
(*   notes      QueryOptimizer.optimization_notes, the instance's buffer   *)
(* Four more variables belong to the other specifications of this module   *)
(* and keep their initial value <<>> here:                                 *)
(*   call       the last call of a function of the cost model or of the    *)
(*              statistics, with its arguments and its result              *)
(*   session    a caller that plans several queries on one optimizer       *)
(*   conc       two optimize calls that run concurrently                   *)
(*   scenario   a query planned against the simulated schema               *)
(***************************************************************************)
VARIABLES query, naivePlan, optPlan, notes, call, session, conc

vars == <<query, naivePlan, optPlan, notes, call, session, conc, scenario>>

\* the variables of the other specifications
others == <<call, session, conc, scenario>>

\* the arguments the caller passes to from_table and join: (table, alias)
TableArgs ==
    {<<"categories", NoneStr>>, <<"customers", "c">>, <<"products", "p">>,
     <<"audit", "c">>, <<"logs", NoneStr>>}

\* the left_col and right_col arguments of join
LeftCols == {<<"id">>}

RightCols == {<<"parent_id">>}

\* the arguments of where: (column, operator, value)
WhereArgs ==
    {<<<<"c", "country">>, "=", StrVal(<<"USA">>)>>,
     <<<<"customers", "id">>, "=", NumVal(5)>>,
     <<<<"p", "category_id">>, "=", NumVal(3)>>,
     <<<<"p", "price">>, "<", NumVal(-10)>>,
     <<<<"status">>, "=", StrVal(<<"open">>)>>,
     <<<<"logs", "level">>, "=", StrVal(<<"E">>)>>}

OrderByArgs == {<<"total", TRUE>>}

LimitArgs == {10}

QuerySize(q) ==
    Len(q.tables) + Len(q.predicates) + Len(q.order_by_columns) +
    (IF q.limit_value = <<>> THEN 0 ELSE 1)

RECURSIVE RowProductFrom(_, _)
RowProductFrom(q, i) ==
    IF i > Len(q.tables) THEN 1
    ELSE Max(1, NaiveTable(q.tables[i]).row_count) * RowProductFrom(q, i + 1)

\* may a reference to this table be added to the query
Fits(q, table) ==
    /\ QuerySize(q) < MaxQuerySize
    /\ RowProductFrom(q, 1) <=
          MaxRowProduct \div Max(1, NaiveTable(TableReference(table, NoneStr)).row_count)

\* the caller is still building the query: no plan was asked for yet
Building == naivePlan = <<>> /\ optPlan = <<>>

Init ==
    /\ query = EmptyQuery
    /\ naivePlan = <<>>
    /\ optPlan = <<>>
    /\ notes = <<>>
    /\ call = <<>>
    /\ session = <<>>
    /\ conc = <<>>
    /\ scenario = <<>>

FromTable ==
    \E a \in TableArgs :
        /\ Building
        /\ Fits(query, a[1])
        /\ query' = from_table(query, a[1], a[2])
        /\ UNCHANGED <<naivePlan, optPlan, notes, others>>

Join ==
    \E a \in TableArgs : \E l \in LeftCols : \E r \in RightCols :
        /\ Building
        /\ Fits(query, a[1])
        /\ query' = join(query, a[1], a[2], l, r)
        /\ UNCHANGED <<naivePlan, optPlan, notes, others>>

Where ==
    \E w \in WhereArgs :
        /\ Building
        /\ QuerySize(query) < MaxQuerySize
        /\ query' = where(query, w[1], w[2], w[3], "AND")
        /\ UNCHANGED <<naivePlan, optPlan, notes, others>>

OrderBy ==
    \E o \in OrderByArgs :
        /\ Building
        /\ QuerySize(query) < MaxQuerySize
        /\ query' = order_by(query, o[1], o[2])
        /\ UNCHANGED <<naivePlan, optPlan, notes, others>>

Limit ==
    \E n \in LimitArgs :
        /\ Building
        /\ query.limit_value # <<>> \/ QuerySize(query) < MaxQuerySize
        /\ query' = limit(query, n)
        /\ UNCHANGED <<naivePlan, optPlan, notes, others>>

\* optimizer.build_naive_plan(query): reads no field of the optimizer but
\* its schema and cost model
BuildNaivePlan ==
    /\ naivePlan' = <<build_naive_plan(query)>>
    /\ UNCHANGED <<query, optPlan, notes, others>>

\* optimizer.optimize(query): resets and refills the notes buffer
Optimize ==
    \E out \in {optimize(query)} :
    /\ optPlan' = <<out.plan>>
    /\ notes' = out.buffer
    /\ UNCHANGED <<query, naivePlan, others>>

Next ==
    \/ FromTable
    \/ Join
    \/ Where
    \/ OrderBy
    \/ Limit
    \/ BuildNaivePlan
    \/ Optimize

Spec == Init /\ [][Next]_vars

(***************************************************************************)
(* Vocabulary of the properties: the nodes and leaves of a plan tree.      *)
(***************************************************************************)
ScanOps == {"Seq Scan", "Index Scan"}

JoinOps == {"Nested Loop", "Hash Join"}

RECURSIVE NodesOf(_)
NodesOf(n) ==
    {n} \cup UNION {NodesOf(n.children[i]) : i \in 1..Len(n.children)}

\* the leaves of a tree, from left to right
RECURSIVE LeavesOf(_)
RECURSIVE LeavesOfAll(_)
LeavesOf(n) == IF Len(n.children) = 0 THEN <<n>> ELSE LeavesOfAll(n.children)
LeavesOfAll(ns) ==
    IF Len(ns) = 0 THEN <<>> ELSE LeavesOf(Head(ns)) \o LeavesOfAll(Tail(ns))

\* the join nodes under the final Sort and Limit, innermost first
RECURSIVE JoinSpine(_)
JoinSpine(n) ==
    IF n.operator \in {"Sort", "Limit"} THEN JoinSpine(n.children[1])
    ELSE IF n.operator \in JoinOps
         THEN Append(JoinSpine(n.children[1]), n)
         ELSE <<>>

\* the reference a scan node was built for
LeafRef(n) == IF n.alias # NoneStr THEN n.alias ELSE n.table

\* the scan under the right input of a join node
InnerOf(join_node) ==
    IF join_node.children[2].operator = "Hash"
    THEN join_node.children[2].children[1]
    ELSE join_node.children[2]

Range(seq) == {seq[i] : i \in 1..Len(seq)}

NotesOfKind(ns, kind) == {i \in 1..Len(ns) : ns[i][1] = kind}

NaiveReturned == naivePlan # <<>> /\ naivePlan[1].error = NoneStr

OptReturned == optPlan # <<>> /\ optPlan[1].error = NoneStr

\* the predicates of the query, as optimize assigns them to tables
Assigned == assign_predicates_to_tables(query, <<>>).result

(***************************************************************************)
(* C1.  The planner is total: for every Query and every Schema, both       *)
(* build_naive_plan and optimize return an ExecutionPlan and raise no      *)
(* error.                                                                  *)
(***************************************************************************)
C1_PlannerTotal ==
    /\ naivePlan # <<>> => naivePlan[1].error = NoneStr
    /\ optPlan # <<>> => optPlan[1].error = NoneStr

(***************************************************************************)
(* C2.  Over a Schema whose tables have row_count >= 0, total_pages >= 0   *)
(* and avg_row_size > 0, every PlanNode of the plans returned by           *)
(* build_naive_plan and by optimize has startup_cost <= total_cost,        *)
(* estimated_rows >= 0 and width >= 0.                                     *)
(***************************************************************************)
SchemaWellFormed ==
    \A name \in DOMAIN SchemaTables :
        /\ SchemaTables[name].row_count >= 0
        /\ SchemaTables[name].total_pages >= 0
        /\ SchemaTables[name].avg_row_size > 0

NodeSane(n) ==
    /\ n.startup_cost <= n.total_cost
    /\ n.estimated_rows >= 0
    /\ n.width >= 0

C2_NodeCostsSane ==
    SchemaWellFormed =>
        /\ NaiveReturned => \A n \in NodesOf(naivePlan[1].root) : NodeSane(n)
        /\ OptReturned => \A n \in NodesOf(optPlan[1].root) : NodeSane(n)

(***************************************************************************)
(* C3.  Predicate pushdown: in the plan returned by optimize, every WHERE  *)
(* predicate whose table qualifier is the ref or the base name of a FROM   *)
(* table is in the filter_condition of that table's scan node (Seq Scan or *)
(* Index Scan), and one 'Pushed predicate' note is recorded for it.        *)
(***************************************************************************)
QualifierMatches(pred, t) ==
    Truthy(pred.table) /\ (get_ref(t) = pred.table \/ t.name = pred.table)

PushablePredicates ==
    {i \in 1..Len(query.predicates) :
        \E k \in 1..Len(query.tables) :
            QualifierMatches(query.predicates[i], query.tables[k])}

\* the scan nodes of the table a predicate is qualified by
ScansOfQualifier(leaves, pred) ==
    {m \in 1..Len(leaves) :
        /\ leaves[m].operator \in ScanOps
        /\ LeafRef(leaves[m]) = pred.table \/ leaves[m].table = pred.table}

C3_QualifiedPredicatesPushed ==
    OptReturned =>
        LET leaves == LeavesOf(optPlan[1].root)
            ns     == optPlan[1].optimization_notes
        IN /\ \A i \in PushablePredicates :
                 /\ ScansOfQualifier(leaves, query.predicates[i]) # {}
                 /\ \A m \in ScansOfQualifier(leaves, query.predicates[i]) :
                       PredStr(query.predicates[i]) \in
                           Range(leaves[m].filter_condition)
                 /\ \E m \in NotesOfKind(ns, "Pushed predicate") :
                       ns[m][2] = PredStr(query.predicates[i])
           /\ Cardinality(NotesOfKind(ns, "Pushed predicate")) =
                 Cardinality(PushablePredicates)

(***************************************************************************)
(* C4.  Join reordering: for a query with two or more tables, optimize     *)
(* joins the tables in FROM order sorted by effective size ascending,      *)
(* tables of equal effective size keeping their FROM order, and records    *)
(* the note 'Reordered joins: ... (original: ...)' exactly when that order *)
(* differs from the FROM order.                                            *)
(***************************************************************************)
EffectiveSize(i) == TableSize(query.tables[i], Assigned)[2]

\* the place of the i-th FROM table in the ascending stable order
Rank(i) ==
    1 + Cardinality({j \in 1..Len(query.tables) :
                        \/ EffectiveSize(j) < EffectiveSize(i)
                        \/ EffectiveSize(j) = EffectiveSize(i) /\ j < i})

FromRefs == [i \in 1..Len(query.tables) |-> get_ref(query.tables[i])]

JoinedRefs ==
    LET leaves == LeavesOf(optPlan[1].root)
    IN [m \in 1..Len(leaves) |-> LeafRef(leaves[m])]

C4_JoinOrderByEffectiveSize ==
    (OptReturned /\ Len(query.tables) >= 2) =>
        LET ns == optPlan[1].optimization_notes
            reordered == NotesOfKind(ns, "Reordered joins")
        IN /\ Len(JoinedRefs) = Len(query.tables)
           /\ \A i \in 1..Len(query.tables) : JoinedRefs[Rank(i)] = FromRefs[i]
           /\ (reordered # {}) <=> (JoinedRefs # FromRefs)
           /\ \A m \in reordered :
                 ns[m] = <<"Reordered joins", JoinedRefs, "original", FromRefs>>
           /\ Cardinality(reordered) <= 1

\* a reordered three-table join in which two different tables of equal
\* effective size kept their FROM order
C4_Witness ==
    /\ OptReturned
    /\ Len(query.tables) >= 3
    /\ NotesOfKind(optPlan[1].optimization_notes, "Reordered joins") # {}
    /\ \E i, j \in 1..Len(query.tables) :
          /\ i < j
          /\ EffectiveSize(i) = EffectiveSize(j)
          /\ FromRefs[i] # FromRefs[j]
          /\ Rank(j) = Rank(i) + 1

(***************************************************************************)
(* C5.  Join algorithm choice: in the plan returned by optimize a join is  *)
(* a Hash Join exactly when both its outer input and its inner input have  *)
(* estimated_rows > 100 (100 itself is not enough) and a Nested Loop       *)
(* otherwise, so that no join whose two sides both exceed 100 rows is a    *)
(* Nested Loop.                                                            *)
(***************************************************************************)
BothSidesBig(join_node) ==
    /\ join_node.children[1].estimated_rows > 100
    /\ InnerOf(join_node).estimated_rows > 100

C5_HashJoinIffBothOver100 ==
    OptReturned =>
        \A n \in NodesOf(optPlan[1].root) :
            /\ Len(n.children) = 2 => n.operator \in JoinOps
            /\ n.operator \in JoinOps =>
                  /\ Len(n.children) = 2
                  /\ (n.operator = "Hash Join") <=> BothSidesBig(n)
                  /\ (n.operator = "Nested Loop") <=> ~ BothSidesBig(n)
                  /\ (n.children[2].operator = "Hash") <=>
                         (n.operator = "Hash Join")

\* a plan with a Hash Join, and with a Nested Loop one of whose sides has
\* exactly 100 rows while the other has more
C5_Witness ==
    /\ OptReturned
    /\ \E n \in NodesOf(optPlan[1].root) : n.operator = "Hash Join"
    /\ \E n \in NodesOf(optPlan[1].root) :
          /\ n.operator = "Nested Loop"
          /\ \/ n.children[1].estimated_rows = 100 /\
                InnerOf(n).estimated_rows > 100
             \/ n.children[1].estimated_rows > 100 /\
                InnerOf(n).estimated_rows = 100

(***************************************************************************)
(* C6.  Access path choice: in the plan returned by optimize a table is    *)
(* read by Index Scan exactly when find_best_index returns an index for    *)
(* the table's pushed predicates and the product of their selectivities is *)
(* strictly below 0.20; otherwise (no predicates, no matching index, or    *)
(* combined selectivity >= 0.20) it is read by Seq Scan, and the note      *)
(* 'Seq scan on ... (index not worth it ...)' is recorded only when an     *)
(* index existed and was rejected.                                         *)
(***************************************************************************)
LeafPredicates(leaf) == ScanPredicates(LeafRef(leaf), leaf.table, Assigned)

LeafStats(leaf) ==
    IF get_table(leaf.table) = <<>>
    THEN EmptyStats(SyntheticTable(leaf.table))
    ELSE get_stats(leaf.table)[1]

LeafSelectivity(leaf) ==
    SelectivityFrom(LeafStats(leaf), LeafPredicates(leaf), 1, One)

IndexFound(leaf) ==
    LET ps == LeafPredicates(leaf) IN
    /\ Len(ps) > 0
    /\ find_best_index(LeafStats(leaf),
                       [i \in 1..Len(ps) |-> ps[i].column],
                       [i \in 1..Len(ps) |-> ps[i].operator]) # <<>>

\* selectivity < 0.20, that is 5 * numerator < denominator
StrictlyBelowFifth(f) == 5 * f.n < f.d

IndexRejected(leaf) ==
    IndexFound(leaf) /\ ~ StrictlyBelowFifth(LeafSelectivity(leaf))

C6_IndexScanIffSelective ==
    OptReturned =>
        LET leaves == LeavesOf(optPlan[1].root)
            ns     == optPlan[1].optimization_notes
            scans  == {m \in 1..Len(leaves) : leaves[m].operator # "Result"}
        IN /\ \A m \in scans :
                 /\ leaves[m].operator \in ScanOps
                 /\ (leaves[m].operator = "Index Scan") <=>
                       (IndexFound(leaves[m]) /\
                        StrictlyBelowFifth(LeafSelectivity(leaves[m])))
           /\ Cardinality(NotesOfKind(ns, "Seq scan on")) =
                 Cardinality({m \in scans : IndexRejected(leaves[m])})
           /\ \A k \in NotesOfKind(ns, "Seq scan on") :
                 \E m \in scans :
                     /\ IndexRejected(leaves[m])
                     /\ leaves[m].operator = "Seq Scan"
                     /\ ns[k][2] = leaves[m].table

\* a plan that reads one table by Index Scan and another by Seq Scan because
\* the selectivity of its indexed predicate is exactly 0.20
C6_Witness ==
    /\ OptReturned
    /\ LET leaves == LeavesOf(optPlan[1].root) IN
       /\ \E m \in 1..Len(leaves) : leaves[m].operator = "Index Scan"
       /\ \E m \in 1..Len(leaves) :
             /\ leaves[m].operator = "Seq Scan"
             /\ IndexFound(leaves[m])
             /\ 5 * LeafSelectivity(leaves[m]).n = LeafSelectivity(leaves[m]).d
    /\ NotesOfKind(optPlan[1].optimization_notes, "Seq scan on") # {}

(***************************************************************************)
(* C7.  The join tree built by optimize is strictly left-deep: the right   *)
(* input of every join node is a single base-relation scan (wrapped in a   *)
(* Hash node for a Hash Join), never another join, and every table         *)
(* reference of the FROM list, references that share an alias or a name    *)
(* included, is scanned by exactly one leaf of the plan.                   *)
(***************************************************************************)
ScansReference(leaf, t) ==
    /\ leaf.operator \in ScanOps
    /\ leaf.table = t.name
    /\ LeafRef(leaf) = get_ref(t)

C7_LeftDeepAndCovering ==
    (OptReturned /\ Len(query.tables) >= 1) =>
        LET leaves == LeavesOf(optPlan[1].root) IN
        /\ \A n \in NodesOf(optPlan[1].root) :
              n.operator \in JoinOps =>
                 /\ Len(n.children) = 2
                 /\ InnerOf(n).operator \in ScanOps
                 /\ n.children[2].operator \in ScanOps \cup {"Hash"}
        /\ Len(leaves) = Len(query.tables)
        /\ \A k \in 1..Len(query.tables) :
              Cardinality({m \in 1..Len(leaves) :
                              ScansReference(leaves[m], query.tables[k])}) =
              Cardinality({j \in 1..Len(query.tables) :
                              /\ query.tables[j].name = query.tables[k].name
                              /\ get_ref(query.tables[j]) =
                                     get_ref(query.tables[k])})

(***************************************************************************)
(* C8.  For any query, every node of the plan returned by build_naive_plan *)
(* has an operator in {Seq Scan, Nested Loop, Sort, Limit, Result}; the    *)
(* plan has is_optimized = false and an empty optimization_notes list.     *)
(***************************************************************************)
NaiveOps == {"Seq Scan", "Nested Loop", "Sort", "Limit", "Result"}

C8_NaiveOperators ==
    NaiveReturned =>
        /\ \A n \in NodesOf(naivePlan[1].root) : n.operator \in NaiveOps
        /\ naivePlan[1].is_optimized = FALSE
        /\ naivePlan[1].optimization_notes = <<>>

\* a naive plan built after optimize filled the notes buffer, with a Limit
\* over a Sort over a Nested Loop over Seq Scans
C8_Witness ==
    /\ NaiveReturned
    /\ Len(notes) > 0
    /\ LET root == naivePlan[1].root IN
       /\ root.operator = "Limit"
       /\ root.children[1].operator = "Sort"
       /\ root.children[1].children[1].operator = "Nested Loop"
       /\ root.children[1].children[1].children[2].operator = "Seq Scan"

(***************************************************************************)
(* C9.  The naive builder preserves the declared order and covers every    *)
(* table: the plan returned by build_naive_plan has one Seq Scan leaf for  *)
(* each table reference of the query, in FROM order from left to right,    *)
(* and the i-th Nested Loop joins the running plan with the scan of the    *)
(* table introduced by the i-th declared join, carrying that join's        *)
(* condition.                                                              *)
(***************************************************************************)
C9_NaiveCoversTablesInOrder ==
    (NaiveReturned /\ Len(query.tables) >= 1) =>
        LET leaves == LeavesOf(naivePlan[1].root)
            spine  == JoinSpine(naivePlan[1].root)
        IN /\ Len(leaves) = Len(query.tables)
           /\ \A i \in 1..Len(leaves) :
                 /\ leaves[i].operator = "Seq Scan"
                 /\ leaves[i].table = query.tables[i].name
                 /\ leaves[i].alias = query.tables[i].alias
           /\ Len(spine) = Len(query.joins)
           /\ \A i \in 1..Len(spine) :
                 /\ spine[i].operator = "Nested Loop"
                 /\ spine[i].join_condition = JoinCondStr(query.joins[i])
                 /\ LeafRef(spine[i].children[2]) = query.joins[i].right_table

(***************************************************************************)
(* C10.  For every Query whose FROM list is empty, whatever its            *)
(* predicates, ORDER BY and LIMIT, both build_naive_plan and optimize      *)
(* return a plan that consists of a single Result node with                *)
(* startup_cost = 0, total_cost = 0 and estimated_rows = 0.                *)
(***************************************************************************)
SingleResultNode(plan) ==
    /\ plan.error = NoneStr
    /\ plan.root.operator = "Result"
    /\ plan.root.children = <<>>
    /\ plan.root.startup_cost = 0
    /\ plan.root.total_cost = 0
    /\ plan.root.estimated_rows = 0

C10_EmptyFromIsResult ==
    Len(query.tables) = 0 =>
        /\ naivePlan # <<>> => SingleResultNode(naivePlan[1])
        /\ optPlan # <<>> => SingleResultNode(optPlan[1])

(***************************************************************************)
(* C11.  A table named in the Query but absent from the Schema is planned  *)
(* exactly as a table with row_count = 1000 and empty statistics would be, *)
(* consistently in build_naive_plan, in the effective size used for join   *)
(* ordering and in the optimized scan node; no error is raised and no note *)
(* signals the fallback.                                                   *)
(***************************************************************************)
AbsentFromSchema(name) == get_table(name) = <<>>

\* no two FROM entries share a ref or a name, so that a ref names one entry
RefsUnambiguous ==
    \A i, j \in 1..Len(query.tables) :
        i # j => {get_ref(query.tables[i]), query.tables[i].name} \cap
                 {get_ref(query.tables[j]), query.tables[j].name} = {}

\* the selectivity a table with empty statistics gives the predicates that
\* optimize assigned to the i-th FROM table
FallbackSelectivity(i) ==
    LET t == query.tables[i]
    IN SelectivityFrom(EmptyStats(SyntheticTable(t.name)),
                       ScanPredicates(get_ref(t), t.name, Assigned), 1, One)

\* the effective size of the i-th FROM table when an absent table counts
\* as a table of 1000 rows with empty statistics
SizeAsIfKnown(i) ==
    IF AbsentFromSchema(query.tables[i].name)
    THEN Max(1, ScaleRows(UNKNOWN_ROW_COUNT, FallbackSelectivity(i)))
    ELSE EffectiveSize(i)

RankAsIfKnown(i) ==
    1 + Cardinality({j \in 1..Len(query.tables) :
                        \/ SizeAsIfKnown(j) < SizeAsIfKnown(i)
                        \/ SizeAsIfKnown(j) = SizeAsIfKnown(i) /\ j < i})

\* the kinds of note optimize records
NoteKinds ==
    {"Pushed predicate", "Reordered joins", "Using index", "Seq scan on",
     "Using Hash Join", "Using Nested Loop", "LIMIT"}

C11_AbsentTableAsThousandRows ==
    (RefsUnambiguous /\ Len(query.tables) > Len(query.joins)) =>
        /\ (\A i \in 1..Len(query.tables) :
               AbsentFromSchema(query.tables[i].name)) =>
              /\ naivePlan # <<>> => NaiveReturned
              /\ optPlan # <<>> => OptReturned
        /\ NaiveReturned =>
              \A n \in Range(LeavesOf(naivePlan[1].root)) :
                  (n.operator = "Seq Scan" /\ AbsentFromSchema(n.table)) =>
                      CostOf(n) = estimate_seq_scan(SyntheticTable(n.table),
                                                    One)
        /\ OptReturned =>
              /\ \A i \in 1..Len(query.tables) :
                    AbsentFromSchema(query.tables[i].name) =>
                        \E n \in Range(LeavesOf(optPlan[1].root)) :
                            /\ n.table = query.tables[i].name
                            /\ CostOf(n) =
                                  estimate_seq_scan(
                                      SyntheticTable(n.table),
                                      FallbackSelectivity(i))
              /\ Len(query.tables) >= 2 =>
                    \A i \in 1..Len(query.tables) :
                        JoinedRefs[RankAsIfKnown(i)] = FromRefs[i]
              /\ \A m \in 1..Len(optPlan[1].optimization_notes) :
                    optPlan[1].optimization_notes[m][1] \in NoteKinds

(***************************************************************************)
(* The functions of the statistics and of the cost model, called on their  *)
(* own: a caller draws the arguments from the sets below and keeps the     *)
(* result.  call is <<>> before the first call and then the record of the  *)
(* last call.                                                              *)
(***************************************************************************)
\* a TableStats whose columns cover the cases of get_selectivity: no
\* distinct values and some NULLs, a numeric range and only NULLs, a range
\* of one value
ProbeStats ==
    TableStats(Table("probe", 40, 100, 1),
               [a |-> ColumnStats(0, Frac(1, 4), <<>>, <<>>),
                b |-> ColumnStats(3, Frac(1, 1), <<10>>, <<20>>),
                c |-> ColumnStats(7, Frac(0, 1), <<5>>, <<5>>)],
               <<>>)

\* the column names asked for: three with statistics and one without
ProbeColumns == {"a", "b", "c", "zz"}

\* the values of the Operator enumeration of query.py, and one that is not
ProbeOperators ==
    {"=", "!=", "<", "<=", ">", ">=", "LIKE", "IN", "IS NULL", "IS NOT NULL",
     "BETWEEN", "~"}

\* values below, inside and above the range of column b, and values of the
\* other types
ProbeValues ==
    {NumVal(-10), NumVal(10), NumVal(15), NumVal(20), NumVal(30),
     StrVal(<<"x">>), StrVal(<<"%", "x">>), ListVal(<<1, 2>>),
     ListVal(<<1, 2, 3, 4>>), NoneVal}

CallsInit ==
    /\ call = <<>>
    /\ query = EmptyQuery
    /\ naivePlan = <<>>
    /\ optPlan = <<>>
    /\ notes = <<>>
    /\ session = <<>>
    /\ conc = <<>>
    /\ scenario = <<>>

\* stats.get_selectivity(column, operator, value)
CallGetSelectivity ==
    \E column \in ProbeColumns, operator \in ProbeOperators,
       value \in ProbeValues :
        /\ call' = [fn |-> "get_selectivity",
                    args |-> <<ProbeStats, column, operator, value>>,
                    result |-> get_selectivity(ProbeStats, column, operator,
                                               value)]
        /\ UNCHANGED <<query, naivePlan, optPlan, notes, session, conc,
                     scenario>>

\* the inputs of estimate_limit: costs in units of 1/2000, with and without
\* a startup cost, and row estimates around the limits asked for
ProbeCosts ==
    {OperationCost(s, t, rows, 100) :
        s \in {0, 700}, t \in {700, 9001}, rows \in {0, 1, 7, 10, 1500}}

ProbeLimits == {0, 1, 10, 11, 2000}

\* cost_model.estimate_limit(input_cost, n)
CallEstimateLimit ==
    \E input_cost \in ProbeCosts, n \in ProbeLimits :
        /\ call' = [fn |-> "estimate_limit", args |-> <<input_cost, n>>,
                    result |-> estimate_limit(input_cost, n)]
        /\ UNCHANGED <<query, naivePlan, optPlan, notes, session, conc,
                     scenario>>

\* the Limit node each builder puts over a scan with the given estimate,
\* for a query with LIMIT n and no ORDER BY
CallLimitNode ==
    \E input_cost \in ProbeCosts, n \in ProbeLimits :
        LET child == CostedNode("Seq Scan", input_cost) IN
        /\ \/ call' = [fn |-> "build_naive_plan", args |-> <<child, n>>,
                       result |-> NaiveLimitNode(child, n)]
           \/ call' = [fn |-> "_add_final_operators", args |-> <<child, n>>,
                       result |-> add_final_operators(
                                      child, limit(EmptyQuery, n), <<>>).node]
        /\ UNCHANGED <<query, naivePlan, optPlan, notes, session, conc,
                     scenario>>

\* statistics with a composite index and two single-column indexes that
\* come after it in the list
ProbeIndexStats ==
    TableStats(Table("probe", 40, 100, 1), <<>>,
               <<Index("idx_ab", "probe", <<"a", "b">>, 40),
                 Index("idx_b", "probe", <<"b">>, 3),
                 Index("idx_a", "probe", <<"a">>, 7)>>)

\* the parallel lists of columns and operators of up to two predicates: an
\* equality, a membership, a range and a pattern operator on two indexed
\* columns and one that no index has
ProbePredicateLists ==
    {<<>>} \cup
    {<<p>> : p \in {"a", "b", "zz"} \X {"=", "IN", "<", "LIKE"}} \cup
    {<<p1, p2>> : p1 \in {"a", "b", "zz"} \X {"=", "IN", "<", "LIKE"},
                  p2 \in {"a", "b", "zz"} \X {"=", "IN", "<", "LIKE"}}

\* stats.find_best_index(columns, operators)
CallFindBestIndex ==
    \E ps \in ProbePredicateLists :
        LET columns   == [i \in 1..Len(ps) |-> ps[i][1]]
            operators == [i \in 1..Len(ps) |-> ps[i][2]]
        IN /\ call' = [fn |-> "find_best_index",
                       args |-> <<ProbeIndexStats, columns, operators>>,
                       result |-> find_best_index(ProbeIndexStats, columns,
                                                  operators)]
           /\ UNCHANGED <<query, naivePlan, optPlan, notes, session, conc,
                        scenario>>

\* the inner_rescan_cost argument of a call: <<>> when the caller leaves
\* it out, else <<the cost passed>>, in units of 1/2000
ProbeRescanCosts == {<<>>, <<0>>, <<500>>}

\* cost_model.estimate_nested_loop_join(outer, inner[, inner_rescan_cost]):
\* a call without the argument passes the default of the parameter, 0.0
CallEstimateNestedLoopJoin ==
    \E outer \in ProbeCosts, inner \in ProbeCosts,
       rescan \in ProbeRescanCosts :
        /\ call' = [fn |-> "estimate_nested_loop_join",
                    args |-> <<outer, inner, rescan>>,
                    result |-> estimate_nested_loop_join(
                                   outer, inner,
                                   IF rescan = <<>> THEN 0 ELSE rescan[1])]
        /\ UNCHANGED <<query, naivePlan, optPlan, notes, session, conc,
                     scenario>>

\* the queries join is called on: without a table, and with one table
\* that has an alias
ProbeJoinQueries ==
    {EmptyQuery, from_table(EmptyQuery, "customers", "c"),
     from_table(EmptyQuery, "orders", "o")}

\* the arguments of join: (table, alias, left_col, right_col), with both
\* columns qualified by an alias, the right column qualified by the table's
\* name or by the ref of another table, no column qualified, and a column
\* name with two dots
ProbeJoinArgs ==
    {<<"orders", "o", <<"c", "id">>, <<"o", "customer_id">>>>,
     <<"orders", "o", <<"c", "id">>, <<"orders", "customer_id">>>>,
     <<"orders", NoneStr, <<"c", "id">>, <<"c", "customer_id">>>>,
     <<"orders", "o", <<"id">>, <<"customer_id">>>>,
     <<"orders", NoneStr, <<"id">>, <<"customer_id">>>>,
     <<"orders", "o", <<"s", "c", "id">>, <<"s", "o", "customer_id">>>>}

\* query.join(table, alias, left_col, right_col)
CallJoin ==
    \E q \in ProbeJoinQueries, a \in ProbeJoinArgs :
        /\ call' = [fn |-> "join", args |-> <<q, a[1], a[2], a[3], a[4]>>,
                    result |-> join(q, a[1], a[2], a[3], a[4])]
        /\ UNCHANGED <<query, naivePlan, optPlan, notes, session, conc,
                     scenario>>

CallsNext ==
    \/ CallGetSelectivity
    \/ CallEstimateLimit
    \/ CallLimitNode
    \/ CallFindBestIndex
    \/ CallEstimateNestedLoopJoin
    \/ CallJoin

CallsSpec == CallsInit /\ [][CallsNext]_vars

Called(fn) == call # <<>> /\ call.fn = fn

(***************************************************************************)
(* C12.  TableStats.get_selectivity returns a value in [0, 1] for every    *)
(* column, operator and value, in particular for range operators with a    *)
(* value below min_value or above max_value, when the column statistics    *)
(* have distinct_count >= 0 and null_fraction in [0, 1].                   *)
(***************************************************************************)
InUnitInterval(f) == f.d > 0 /\ 0 <= f.n /\ f.n <= f.d

StatsWellFormed(stats) ==
    \A column \in DOMAIN stats.column_stats :
        /\ stats.column_stats[column].distinct_count >= 0
        /\ InUnitInterval(stats.column_stats[column].null_fraction)

C12_SelectivityInUnitInterval ==
    (Called("get_selectivity") /\ StatsWellFormed(call.args[1])) =>
        InUnitInterval(call.result)

(***************************************************************************)
(* C13.  In every plan produced by either builder, each Sort node and each *)
(* Hash node has startup_cost equal to its total_cost.                     *)
(***************************************************************************)
Blocking(n) ==
    n.operator \in {"Sort", "Hash"} => n.startup_cost = n.total_cost

C13_SortAndHashBlock ==
    /\ NaiveReturned => \A n \in NodesOf(naivePlan[1].root) : Blocking(n)
    /\ OptReturned => \A n \in NodesOf(optPlan[1].root) : Blocking(n)

(***************************************************************************)
(* C14.  Final operators of optimize: with ORDER BY, one Sort node is      *)
(* placed directly above the join tree; with LIMIT n, the root is a Limit  *)
(* node placed above the Sort (or above the join tree when there is no     *)
(* ORDER BY), with extra_info Rows = n and estimated_rows = min(n,         *)
(* estimated_rows of its child), and the note 'LIMIT n reduces cost by     *)
(* early termination' is the last note; a Sort is never above a Limit.     *)
(***************************************************************************)
HasOrderBy == Len(query.order_by_columns) > 0

HasLimit == query.limit_value # <<>>

\* the node under the Limit of the optimized plan, or its root
UnderLimit ==
    IF HasLimit THEN optPlan[1].root.children[1] ELSE optPlan[1].root

\* the node under the Sort of the optimized plan
UnderSort == IF HasOrderBy THEN UnderLimit.children[1] ELSE UnderLimit

LimitNote(n) == <<"LIMIT", n, "reduces cost by early termination">>

C14_FinalOperators ==
    OptReturned =>
        LET root == optPlan[1].root
            ns   == optPlan[1].optimization_notes
        IN /\ HasLimit =>
                 /\ root.operator = "Limit"
                 /\ Len(root.children) = 1
                 /\ root.extra_info = [Rows |-> query.limit_value[1]]
                 /\ root.estimated_rows =
                       Min(query.limit_value[1],
                           root.children[1].estimated_rows)
                 /\ Len(ns) > 0
                 /\ ns[Len(ns)] = LimitNote(query.limit_value[1])
                 /\ Cardinality(NotesOfKind(ns, "LIMIT")) = 1
           /\ ~ HasLimit => NotesOfKind(ns, "LIMIT") = {}
           /\ HasOrderBy =>
                 /\ UnderLimit.operator = "Sort"
                 /\ Len(UnderLimit.children) = 1
                 /\ UnderLimit.sort_keys = SortKeys(query)
           /\ UnderSort.operator \in ScanOps \cup JoinOps \cup {"Result"}
           /\ \A n \in NodesOf(UnderSort) : n.operator \notin {"Sort", "Limit"}

\* a Limit that cuts the estimate of a Sort over a join
C14_Witness ==
    /\ OptReturned
    /\ HasLimit
    /\ HasOrderBy
    /\ UnderSort.operator \in JoinOps
    /\ UnderLimit.estimated_rows > query.limit_value[1]
    /\ optPlan[1].root.estimated_rows = query.limit_value[1]

(***************************************************************************)
(* C15.  Limit passthrough: estimate_limit(input, n) with n >= input.rows  *)
(* returns a quadruple equal to input in all four fields, and a Limit node *)
(* built over a child whose estimated_rows <= n has the same startup_cost, *)
(* total_cost, estimated_rows and width as that child; with n < input.rows *)
(* the result has rows = n and total_cost = startup + (total - startup) *  *)
(* n / rows (here in whole cost units of 1/2000, rounded toward zero).     *)
(***************************************************************************)
C15_LimitPassthrough ==
    /\ Called("estimate_limit") =>
          LET input == call.args[1]
              n     == call.args[2]
              out   == call.result
          IN /\ n >= input.rows => out = input
             /\ n < input.rows =>
                   /\ out.rows = n
                   /\ out.startup_cost = input.startup_cost
                   /\ out.width = input.width
                   /\ out.total_cost =
                         input.startup_cost +
                         TruncDiv((input.total_cost - input.startup_cost) * n,
                                  input.rows)
    /\ (Called("build_naive_plan") \/ Called("_add_final_operators")) =>
          LET child == call.args[1]
              n     == call.args[2]
              node  == call.result
          IN /\ node.operator = "Limit"
             /\ node.children = <<child>>
             /\ child.estimated_rows <= n => CostOf(node) = CostOf(child)

\* the optimized builder's Limit node over a child with fewer rows than the
\* limit, a startup cost and a larger total cost
C15_Witness ==
    /\ Called("_add_final_operators")
    /\ 0 < call.args[1].estimated_rows
    /\ call.args[1].estimated_rows < call.args[2]
    /\ 0 < call.args[1].startup_cost
    /\ call.args[1].startup_cost < call.args[1].total_cost
    /\ call.result.total_cost = call.args[1].total_cost

(***************************************************************************)
(* A planning session: a caller holds a few Query objects and one          *)
(* QueryOptimizer over one Schema, calls optimize and build_naive_plan on  *)
(* them in any order and keeps every plan it got back.  The lists of notes *)
(* are objects with an identity: session.lists holds every list created so *)
(* far and a list is named by its position there.                          *)
(*   queries   the Query objects of the caller                             *)
(*   schema    the Schema of the optimizer                                 *)
(*   lists     the note lists created so far                               *)
(*   buffer    the list bound to optimizer.optimization_notes              *)
(*   returned  the calls made so far: the function, the query it was given,*)
(*             the name of the exception or NoneStr, the root of the plan, *)
(*             the list that is the plan's optimization_notes, and the     *)
(*             notes the call generated                                    *)
(***************************************************************************)
MaxCalls == 3

\* the queries of the caller: an index lookup by the table's name, a join
\* with a rejected index and a LIMIT, and a join that gets reordered
SessionQueries ==
    <<where(from_table(EmptyQuery, "customers", "c"),
            <<"customers", "id">>, "=", NumVal(5), "AND"),
      limit(where(join(from_table(EmptyQuery, "products", "p"),
                       "categories", NoneStr, <<"category_id">>, <<"id">>),
                  <<"p", "category_id">>, "=", NumVal(3), "AND"),
            10),
      from_table(from_table(EmptyQuery, "customers", "c"),
                 "categories", NoneStr)>>

\* ResetBuffer without the assignment: the buffer keeps its list
KeepBuffer(lists, buffer) == [lists |-> lists, buffer |-> buffer]

\* self.optimization_notes = []: a new empty list is bound to the buffer
ResetBuffer(lists, buffer) ==
    [lists |-> Append(lists, <<>>), buffer |-> Len(lists) + 1]

\* self.optimization_notes.append(...), once for each note of a call
AppendNotes(lists, buffer, ns) == [lists EXCEPT ![buffer] = @ \o ns]

\* self.optimization_notes.copy(): a new list with the same notes
CopyBuffer(lists, buffer) ==
    [lists |-> Append(lists, lists[buffer]), copy |-> Len(lists) + 1]

\* QueryAfterOptimize when the sort of _optimize_join_order is done on
\* query.tables itself
QuerySortedInPlace(q) ==
    LET sizes == [i \in 1..Len(q.tables) |->
                     TableSize(q.tables[i],
                               assign_predicates_to_tables(q, <<>>).result)[2]]
        place(i) == 1 + Cardinality({j \in 1..Len(q.tables) :
                                        \/ sizes[j] < sizes[i]
                                        \/ sizes[j] = sizes[i] /\ j < i})
    IN [q EXCEPT !.tables =
           [m \in 1..Len(q.tables) |->
               q.tables[CHOOSE i \in 1..Len(q.tables) : place(i) = m]]]

\* QueryAfterOptimize when the pushdown takes every predicate out of
\* query.predicates
QueryPredicatesTaken(q) == [q EXCEPT !.predicates = <<>>]

\* the Query after optimize(query): optimize reads query.tables,
\* query.joins, query.predicates, query.order_by_columns and
\* query.limit_value and calls get_table_name and to_sql; the lists it
\* appends to and the list it sorts are its own
QueryAfterOptimize(q) == q

\* the Query after build_naive_plan(query): the same reads
QueryAfterNaive(q) == q

\* the Schema after a planning call: the planner calls get_table and
\* get_stats; the Table it makes for an absent name stays a local
SchemaAfterPlanning(schema) == schema

SessionInit ==
    /\ session = [queries |-> SessionQueries,
                  schema |-> [tables |-> SchemaTables,
                              table_stats |-> SchemaStats],
                  lists |-> <<<<>>>>,
                  buffer |-> 1,
                  returned |-> <<>>]
    /\ query = EmptyQuery
    /\ naivePlan = <<>>
    /\ optPlan = <<>>
    /\ notes = <<>>
    /\ call = <<>>
    /\ conc = <<>>
    /\ scenario = <<>>

\* optimizer.optimize(queries[k])
SessionOptimize ==
    \E k \in 1..Len(session.queries) :
    \E out \in {optimize(session.queries[k])} :
    \E reset \in {ResetBuffer(session.lists, session.buffer)} :
    \E filled \in {AppendNotes(reset.lists, reset.buffer, out.buffer)} :
    \E copied \in {CopyBuffer(filled, reset.buffer)} :
        /\ Len(session.returned) < MaxCalls
        /\ session' =
              [queries |-> [session.queries EXCEPT
                               ![k] = QueryAfterOptimize(session.queries[k])],
               schema |-> SchemaAfterPlanning(session.schema),
               lists |-> IF out.plan.error = NoneStr THEN copied.lists
                         ELSE filled,
               buffer |-> reset.buffer,
               returned |->
                   Append(session.returned,
                          [fn |-> "optimize", query |-> k,
                           error |-> out.plan.error,
                           root |-> out.plan.root,
                           optimization_notes |->
                               IF out.plan.error = NoneStr THEN copied.copy
                               ELSE 0,
                           generated |-> out.buffer])]
        /\ UNCHANGED <<query, naivePlan, optPlan, notes, call, conc,
                     scenario>>

\* optimizer.build_naive_plan(queries[k]): the plan gets the empty list of
\* the default of ExecutionPlan.optimization_notes
SessionNaive ==
    \E k \in 1..Len(session.queries) :
    \E out \in {build_naive_plan(session.queries[k])} :
        /\ Len(session.returned) < MaxCalls
        /\ session' =
              [queries |-> [session.queries EXCEPT
                               ![k] = QueryAfterNaive(session.queries[k])],
               schema |-> SchemaAfterPlanning(session.schema),
               lists |-> IF out.error = NoneStr
                         THEN Append(session.lists, <<>>)
                         ELSE session.lists,
               buffer |-> session.buffer,
               returned |->
                   Append(session.returned,
                          [fn |-> "build_naive_plan", query |-> k,
                           error |-> out.error,
                           root |-> out.root,
                           optimization_notes |->
                               IF out.error = NoneStr
                               THEN Len(session.lists) + 1 ELSE 0,
                           generated |-> <<>>])]
        /\ UNCHANGED <<query, naivePlan, optPlan, notes, call, conc,
                     scenario>>

SessionNext ==
    \/ SessionOptimize
    \/ SessionNaive

SessionSpec == SessionInit /\ [][SessionNext]_vars

\* the positions in session.returned of the calls of fn that returned a plan
ReturnedBy(fn) ==
    {i \in 1..Len(session.returned) :
        session.returned[i].fn = fn /\ session.returned[i].error = NoneStr}

NotesOfPlan(i) == session.lists[session.returned[i].optimization_notes]

C17_NotesArePerCall ==
    session # <<>> =>
        /\ \A i \in ReturnedBy("optimize") :
              NotesOfPlan(i) = session.returned[i].generated
        /\ \A i, j \in ReturnedBy("optimize") \cup
                       ReturnedBy("build_naive_plan") :
              i # j => session.returned[i].optimization_notes #
                       session.returned[j].optimization_notes
        /\ \A i \in ReturnedBy("optimize") \cup
                    ReturnedBy("build_naive_plan") :
              session.returned[i].optimization_notes # session.buffer

\* an optimized plan with notes, then a naive plan, then an optimized plan
\* of another query with other notes
C17_Witness ==
    /\ session # <<>>
    /\ Len(session.returned) = 3
    /\ ReturnedBy("optimize") = {1, 3}
    /\ ReturnedBy("build_naive_plan") = {2}
    /\ NotesOfPlan(1) # <<>>
    /\ NotesOfPlan(3) # <<>>
    /\ Range(NotesOfPlan(1)) \cap Range(NotesOfPlan(3)) = {}

(***************************************************************************)
(* C18.  Re-planning is idempotent: calling optimize again with the same   *)
(* Query against the same Schema (on the same instance, with any other     *)
(* planning calls in between) returns a plan whose total_cost equals that  *)
(* of the first plan.                                                      *)
(***************************************************************************)
\* the calls of optimize, returned or raised
OptimizeCalls ==
    {i \in 1..Len(session.returned) : session.returned[i].fn = "optimize"}

Threads == 1..2

\* BufferOf when optimization_notes is an attribute of the class
ClassBuffer(t, ins) == 1

\* BufferOf when the notes are collected in a local variable of the call
LocalBuffer(t, ins) == t

\* self.optimization_notes within call t on optimizer ins: an attribute of
\* the instance
BufferOf(t, ins) == ins

ConcurrentInit ==
    /\ \E k1, k2 \in 1..Len(SessionQueries), i2 \in Threads :
          conc = [instance |-> <<1, i2>>,
                  query |-> <<k1, k2>>,
                  lists |-> <<<<>>, <<>>>>,
                  buffer |-> <<1, 2>>,
                  pc |-> <<"call", "call">>,
                  pending |-> <<<<>>, <<>>>>,
                  generated |-> <<<<>>, <<>>>>,
                  root |-> <<<<>>, <<>>>>,
                  loaded |-> <<0, 0>>,
                  overtaken |-> <<FALSE, FALSE>>,
                  returned |-> <<<<>>, <<>>>>]
    /\ query = EmptyQuery
    /\ naivePlan = <<>>
    /\ optPlan = <<>>
    /\ notes = <<>>
    /\ call = <<>>
    /\ session = <<>>
    /\ scenario = <<>>

\* the other thread
Other(t) == 3 - t

\* thread t: self.optimization_notes = []
ConcReset(t) ==
    \E out \in {optimize(SessionQueries[conc.query[t]])} :
        /\ conc.pc[t] = "call"
        /\ conc' =
              [conc EXCEPT
                 !.lists = Append(@, <<>>),
                 !.buffer[BufferOf(t, conc.instance[t])] =
                     Len(conc.lists) + 1,
                 !.pending[t] = out.buffer,
                 !.generated[t] = out.buffer,
                 !.root[t] = out.plan.root,
                 !.overtaken[Other(t)] =
                     /\ conc.pc[Other(t)] \in {"run", "append"}
                     /\ Len(conc.pending[Other(t)]) <
                           Len(conc.generated[Other(t)]),
                 !.pc[t] = "run"]
        /\ UNCHANGED <<query, naivePlan, optPlan, notes, call, session,
                     scenario>>

\* thread t: the load of self.optimization_notes, for the next append or,
\* after the last note, for the copy
ConcLoad(t) ==
    /\ conc.pc[t] = "run"
    /\ conc' =
          [conc EXCEPT
             !.loaded[t] = conc.buffer[BufferOf(t, conc.instance[t])],
             !.pc[t] = IF conc.pending[t] = <<>> THEN "copy" ELSE "append"]
    /\ UNCHANGED <<query, naivePlan, optPlan, notes, call, session,
                     scenario>>

\* thread t: the append of the next note to the list that was loaded
ConcAppend(t) ==
    /\ conc.pc[t] = "append"
    /\ conc' =
          [conc EXCEPT
             !.lists[conc.loaded[t]] =
                 Append(@, [note |-> Head(conc.pending[t]), by |-> t]),
             !.pending[t] = Tail(@),
             !.pc[t] = "run"]
    /\ UNCHANGED <<query, naivePlan, optPlan, notes, call, session,
                     scenario>>

\* thread t: plan.optimization_notes gets the copy of the list that was
\* loaded, and the plan is returned
ConcCopy(t) ==
    /\ conc.pc[t] = "copy"
    /\ conc' =
          [conc EXCEPT
             !.returned[t] =
                 <<[root |-> conc.root[t],
                    optimization_notes |-> conc.lists[conc.loaded[t]]]>>,
             !.pc[t] = "done"]
    /\ UNCHANGED <<query, naivePlan, optPlan, notes, call, session,
                     scenario>>

ConcurrentNext ==
    \E t \in Threads :
        \/ ConcReset(t)
        \/ ConcLoad(t)
        \/ ConcAppend(t)
        \/ ConcCopy(t)

ConcurrentSpec == ConcurrentInit /\ [][ConcurrentNext]_vars

\* the notes of the plan that call t returned, as the strings the caller
\* reads
ReturnedNotes(t) ==
    [i \in 1..Len(conc.returned[t][1].optimization_notes) |->
        conc.returned[t][1].optimization_notes[i].note]

\* the plan of call t holds a note that the other call appended
HoldsForeignNote(t) ==
    \E e \in Range(conc.returned[t][1].optimization_notes) : e.by # t

\* the plan of call t lacks a note that call t appended
LacksOwnNote(t) ==
    \E i \in 1..Len(conc.generated[t]) :
        [note |-> conc.generated[t][i], by |-> t] \notin
            Range(conc.returned[t][1].optimization_notes)

(***************************************************************************)
(* C19.  Independent optimizer instances do not interfere: when the two    *)
(* optimize calls are made on distinct QueryOptimizer instances, sharing   *)
(* the Schema and the Query objects, then in every interleaving of their   *)
(* steps each call returns the plan tree and the optimization_notes it     *)
(* returns when it runs alone.                                             *)
(***************************************************************************)
C19_InstancesIndependent ==
    (conc # <<>> /\ conc.instance[1] # conc.instance[2]) =>
        \A t \in Threads :
            conc.pc[t] = "done" =>
                \E alone \in {optimize(SessionQueries[conc.query[t]])} :
                    /\ conc.returned[t][1].root = alone.plan.root
                    /\ ReturnedNotes(t) = alone.buffer
                    /\ ~HoldsForeignNote(t)

\* two calls on distinct instances that both produced notes and both
\* returned, the second of them started in the middle of the first
C19_Witness ==
    /\ conc # <<>>
    /\ conc.instance[1] # conc.instance[2]
    /\ conc.pc = <<"done", "done">>
    /\ conc.overtaken[1]
    /\ conc.generated[1] # <<>>
    /\ conc.generated[2] # <<>>
    /\ conc.query[1] # conc.query[2]

(***************************************************************************)
(* C20.  Reusing one QueryOptimizer instance across two concurrent         *)
(* optimize calls is not safe: there are interleavings of the two calls in *)
(* which a returned plan's optimization_notes contain a note produced by   *)
(* the other call or lack a note produced by its own call.  These are at   *)
(* least the interleavings where the other call resets the shared buffer   *)
(* after this call appended a note and before it loads the buffer for the  *)
(* copy: the plan of this call then always lacks a note of its own.        *)
(***************************************************************************)
C20_SharedInstanceUnsafe ==
    (conc # <<>> /\ conc.instance[1] = conc.instance[2]) =>
        \A t \in Threads :
            (conc.pc[t] = "done" /\ conc.overtaken[t]) =>
                \/ HoldsForeignNote(t)
                \/ LacksOwnNote(t)

\* two calls on one instance have returned, and the plan of one of them
\* holds a note of the other call and lacks a note of its own
C20_Witness ==
    /\ conc # <<>>
    /\ conc.instance[1] = conc.instance[2]
    /\ conc.pc = <<"done", "done">>
    /\ \E t \in Threads :
          /\ HoldsForeignNote(t)
          /\ LacksOwnNote(t)

(***************************************************************************)
(* Planning against the simulated schema: a caller builds a query over     *)
(* categories, customers and orders with qualified join columns, as the    *)
(* sample queries of main.py do, and calls optimize on an optimizer whose  *)
(* Schema is create_simulated_schema().                                    *)
(*   scenario.query   the Query the caller is building                     *)
(*   scenario.plan    <<>> or <<the outcome of optimize(query)>>           *)
(***************************************************************************)
MaxScenarioPredicates == 3

\* the largest product of the row counts of the tables of a query
MaxScenarioRows == 500000000

\* the arguments of from_table: (table, alias)
ScenarioTables ==
    {<<"customers", "c">>, <<"orders", "o">>, <<"categories", "cat">>}

\* the arguments of join: (table, alias, left_col, right_col); the third
\* one qualifies the right column by the table's name instead of its alias,
\* the last one joins a table without an alias
ScenarioJoins ==
    {<<"orders", "o", <<"c", "id">>, <<"o", "customer_id">>>>,
     <<"customers", "c", <<"o", "customer_id">>, <<"c", "id">>>>,
     <<"orders", "o", <<"c", "id">>, <<"orders", "customer_id">>>>,
     <<"categories", NoneStr, <<"cat", "id">>, <<"id">>>>}

\* the arguments of where: (column, operator, value)
ScenarioWheres ==
    {<<<<"c", "country">>, "=", StrVal(<<"France">>)>>,
     <<<<"o", "status">>, "=", StrVal(<<"delivered">>)>>,
     <<<<"customers", "country">>, "=", StrVal(<<"Germany">>)>>,
     <<<<"status">>, "=", StrVal(<<"shipped">>)>>}

\* the refs of the tables of a query
RefsOf(q) == {get_ref(q.tables[i]) : i \in 1..Len(q.tables)}

\* the product of the row counts of the tables of a query, from table i on
RECURSIVE ScenarioRowsFrom(_, _)
ScenarioRowsFrom(q, i) ==
    IF i > Len(q.tables) THEN 1
    ELSE SimulatedTables[q.tables[i].name].row_count *
         ScenarioRowsFrom(q, i + 1)

\* may this table be added to the query under this ref
ScenarioFits(q, table, ref) ==
    /\ ref \notin RefsOf(q)
    /\ ScenarioRowsFrom(q, 1) <=
          MaxScenarioRows \div SimulatedTables[table].row_count

ScenarioInit ==
    /\ scenario = [query |-> EmptyQuery, plan |-> <<>>]
    /\ query = EmptyQuery
    /\ naivePlan = <<>>
    /\ optPlan = <<>>
    /\ notes = <<>>
    /\ call = <<>>
    /\ session = <<>>
    /\ conc = <<>>

\* query.from_table(table, alias), for a table the query does not have yet
ScenarioFromTable ==
    \E a \in ScenarioTables :
        /\ scenario.plan = <<>>
        /\ ScenarioFits(scenario.query, a[1], a[2])
        /\ scenario' = [scenario EXCEPT
                           !.query = from_table(@, a[1], a[2])]
        /\ UNCHANGED <<query, naivePlan, optPlan, notes, call, session, conc>>

\* query.join(table, alias, left_col, right_col), for a table the query
\* does not have yet
ScenarioJoin ==
    \E a \in ScenarioJoins :
        /\ scenario.plan = <<>>
        /\ ScenarioFits(scenario.query, a[1],
                        IF Truthy(a[2]) THEN a[2] ELSE a[1])
        /\ scenario' = [scenario EXCEPT
                           !.query = join(@, a[1], a[2], a[3], a[4])]
        /\ UNCHANGED <<query, naivePlan, optPlan, notes, call, session, conc>>

\* query.where(column, operator, value)
ScenarioWhere ==
    \E w \in ScenarioWheres :
        /\ scenario.plan = <<>>
        /\ Len(scenario.query.predicates) < MaxScenarioPredicates
        /\ scenario' = [scenario EXCEPT
                           !.query = where(@, w[1], w[2], w[3], "AND")]
        /\ UNCHANGED <<query, naivePlan, optPlan, notes, call, session, conc>>

\* QueryOptimizer(create_simulated_schema()).optimize(query)
ScenarioOptimize ==
    \E out \in {optimize(scenario.query)} :
        /\ scenario.plan = <<>>
        /\ scenario' = [scenario EXCEPT !.plan = <<out>>]
        /\ UNCHANGED <<query, naivePlan, optPlan, notes, call, session, conc>>

ScenarioNext ==
    \/ ScenarioFromTable
    \/ ScenarioJoin
    \/ ScenarioWhere
    \/ ScenarioOptimize

ScenarioSpec == ScenarioInit /\ [][ScenarioNext]_vars

\* optimize returned a plan for the scenario's query
ScenarioPlanned ==
    /\ scenario # <<>>
    /\ scenario.plan # <<>>
    /\ scenario.plan[1].plan.error = NoneStr

\* Scenario B: customers c JOIN orders o ON c.id = o.customer_id
\* WHERE c.country = 'France' AND o.status = 'delivered'
ScenarioB ==
    where(where(join(from_table(EmptyQuery, "customers", "c"),
                     "orders", "o", <<"c", "id">>, <<"o", "customer_id">>),
                <<"c", "country">>, "=", StrVal(<<"France">>), "AND"),
          <<"o", "status">>, "=", StrVal(<<"delivered">>), "AND")

\* the refs of the leaves of a plan, left to right
LeafRefs(root) ==
    [i \in 1..Len(LeavesOf(root)) |-> LeafRef(LeavesOf(root)[i])]

(***************************************************************************)
(* C21.  Scenario B: for customers c JOIN orders o ON c.id = o.customer_id *)
(* WHERE c.country = 'France' AND o.status = 'delivered' on the simulated  *)
(* schema, optimize swaps the declared join order (the leaves of the plan  *)
(* are not in the order customers, orders), joins with a Hash Join, and    *)
(* its notes include two predicate-pushdown lines, one join-reorder line   *)
(* and one Hash-Join line.                                                 *)
(***************************************************************************)
C21_ScenarioB ==
    (ScenarioPlanned /\ scenario.query = ScenarioB) =>
        /\ LeafRefs(scenario.plan[1].plan.root) # <<"c", "o">>
        /\ scenario.plan[1].plan.root.operator = "Hash Join"
        /\ Cardinality(NotesOfKind(scenario.plan[1].buffer,
                                   "Pushed predicate")) = 2
        /\ Cardinality(NotesOfKind(scenario.plan[1].buffer,
                                   "Reordered joins")) = 1
        /\ Cardinality(NotesOfKind(scenario.plan[1].buffer,
                                   "Using Hash Join")) = 1

(***************************************************************************)
(* C22.  Selectivity edge cases fall through to fixed defaults instead of  *)
(* failing: get_selectivity returns 0.1 for a column without statistics or *)
(* an unrecognised operator, 0.01 for '=' when distinct_count is 0, 0.33   *)
(* for a range operator when min_value or max_value is unknown, when       *)
(* max_value - min_value is zero, or when the value is not numeric, and    *)
(* 0.1 for 'IN' when the value is not a collection or distinct_count is 0; *)
(* it never divides by zero.                                               *)
(***************************************************************************)
\* the operators get_selectivity has a branch for
RecognisedOperators ==
    {"=", "LIKE", "IN", "IS NULL", "IS NOT NULL"} \cup RangeOps

C22_SelectivityDefaults ==
    Called("get_selectivity") =>
        LET stats    == call.args[1]
            column   == call.args[2]
            operator == call.args[3]
            value    == call.args[4]
            known    == column \in DOMAIN stats.column_stats
            cs       == stats.column_stats[column]
        IN /\ call.result.d > 0
           /\ ~known => call.result = Frac(1, 10)
           /\ (known /\ operator \notin RecognisedOperators) =>
                 call.result = Frac(1, 10)
           /\ (known /\ operator = "=" /\ cs.distinct_count = 0) =>
                 call.result = Frac(1, 100)
           /\ (known /\ operator \in RangeOps
                     /\ \/ cs.min_value = <<>>
                        \/ cs.max_value = <<>>
                        \/ cs.max_value[1] - cs.min_value[1] = 0
                        \/ value.kind # "num") =>
                 call.result = Frac(33, 100)
           /\ (known /\ operator = "IN"
                     /\ (value.kind # "list" \/ cs.distinct_count = 0)) =>
                 call.result = Frac(1, 10)

\* a range operator with a numeric value on a column whose min_value and
\* max_value are equal got the default 0.33
C22_Witness ==
    /\ Called("get_selectivity")
    /\ call.args[2] = "c"
    /\ call.args[3] \in RangeOps
    /\ call.args[4].kind = "num"
    /\ call.args[1].column_stats["c"].max_value =
          call.args[1].column_stats["c"].min_value
    /\ call.result = Frac(33, 100)

(***************************************************************************)
(* C23.  The effective size that orders a table in optimize is             *)
(* max(1, floor(row_count * product of the selectivities of every          *)
(* predicate pushed to that table)), counting predicates qualified by the  *)
(* table's alias and predicates qualified by its base name alike, and it   *)
(* is computed from the same predicate set that the table's scan node      *)
(* later uses for its filter_condition and row estimate.                   *)
(***************************************************************************)
\* the predicates of the scenario's query, as optimize assigns them
ScenarioAssigned == assign_predicates_to_tables(scenario.query, <<>>).result

\* the predicates pushed to a table, under its ref and under its name
PushedTo(t, table_predicates) ==
    LET under(key) == IF key \in DOMAIN table_predicates
                      THEN table_predicates[key] ELSE <<>>
    IN IF get_ref(t) = t.name THEN under(t.name)
       ELSE under(get_ref(t)) \o under(t.name)

\* max(1, floor(row_count * product of the selectivities of predicates))
SizeOver(t, predicates) ==
    Max(1, ScaleRows(get_table(t.name)[1].row_count,
                     SelectivityFrom(get_stats(t.name)[1], predicates, 1,
                                     One)))

C23_EffectiveSizeFromPushedPredicates ==
    (ScenarioPlanned /\ Len(scenario.query.tables) > 1) =>
        \A i \in 1..Len(scenario.query.tables) :
            LET t == scenario.query.tables[i] IN
            /\ TableSize(t, ScenarioAssigned)[2] =
                  SizeOver(t, PushedTo(t, ScenarioAssigned))
            /\ TableSize(t, ScenarioAssigned)[2] =
                  SizeOver(t, ScanPredicates(get_ref(t), t.name,
                                             ScenarioAssigned))

(***************************************************************************)
(* C24.  Join-condition matching in optimize: the join node that brings in *)
(* a table T (any table after the first in the chosen order) carries as    *)
(* join_condition the first declared JoinCondition, in declaration order,  *)
(* whose right side equals T's ref or T's base name, rendered              *)
(* 'L.lc = R.rc'; it carries no join_condition when no declared join has T *)
(* on its right side.                                                      *)
(***************************************************************************)
\* the name of the table of the query that has this ref
BaseName(q, ref) ==
    q.tables[CHOOSE i \in 1..Len(q.tables) : get_ref(q.tables[i]) = ref].name

\* the declared joins that have the table with this ref on their right side
JoinsOnto(q, ref) ==
    {i \in 1..Len(q.joins) :
        q.joins[i].right_table \in {ref, BaseName(q, ref)}}

\* the join_condition the join node that brings in the table is to carry
DeclaredCondition(q, ref) ==
    IF JoinsOnto(q, ref) = {} THEN NoneStr
    ELSE LET first == CHOOSE i \in JoinsOnto(q, ref) :
                          \A j \in JoinsOnto(q, ref) : i <= j
         IN q.joins[first].left_table \o "." \o q.joins[first].left_column
            \o " = " \o
            q.joins[first].right_table \o "." \o q.joins[first].right_column

RECURSIVE StatedScore(_, _, _, _, _)
StatedScore(index, columns, operators, i, score) ==
    IF i > Len(columns) \/ i > Len(index.columns) THEN score
    ELSE IF index.columns[i] = columns[i] /\ operators[i] \in {"=", "IN"}
         THEN StatedScore(index, columns, operators, i + 1, score + 2)
         ELSE IF index.columns[i] = columns[i] /\ operators[i] \in RangeOps
              THEN score + 1
              ELSE score

\* the index with the highest stated score above zero, the first one in
\* list order on a tie; <<>> when there is none
StatedBestIndex(indexes, columns, operators) ==
    LET score(k) == StatedScore(indexes[k], columns, operators, 1, 0)
        best == {k \in 1..Len(indexes) :
                    /\ score(k) > 0
                    /\ \A j \in 1..Len(indexes) : score(j) <= score(k)}
    IN IF best = {} THEN <<>>
       ELSE <<indexes[CHOOSE k \in best : \A j \in best : k <= j]>>

C25_BestIndexAsStated ==
    Called("find_best_index") =>
        call.result = StatedBestIndex(call.args[1].indexes, call.args[2],
                                      call.args[3])

(***************************************************************************)
(* C26.  estimate_nested_loop_join uses inner.total_cost * 0.9 as the      *)
(* rescan cost only when the caller leaves inner_rescan_cost unspecified;  *)
(* every explicitly supplied rescan cost c, including c = 0, gives         *)
(* total = outer.total + inner.total + max(0, outer.rows - 1) * c +        *)
(* outer.rows * inner.rows * cpu_operator_cost.                            *)
(***************************************************************************)
C26_ExplicitRescanCostIsUsed ==
    (Called("estimate_nested_loop_join") /\ call.args[3] # <<>>) =>
        call.result.total_cost =
            call.args[1].total_cost + call.args[2].total_cost +
            Max(0, call.args[1].rows - 1) * call.args[3][1] +
            call.args[1].rows * call.args[2].rows * CPU_OPERATOR_COST

(***************************************************************************)
(* C27.  Query.join splits each column argument of the form 'T.c' on its   *)
(* first dot into (table_ref, column) and records them on the              *)
(* JoinCondition: the left side gets the qualifier of left_col and the     *)
(* right side gets the qualifier of right_col; only a column without a dot *)
(* falls back to the default (first table's ref on the left, the           *)
(* just-joined table's ref on the right).                                  *)
(***************************************************************************)
\* the JoinCondition the call of join appended
JoinAdded == call.result.joins[Len(call.result.joins)]

C27_JoinRecordsQualifiers ==
    Called("join") =>
        LET q         == call.args[1]
            table     == call.args[2]
            alias     == call.args[3]
            left_col  == call.args[4]
            right_col == call.args[5]
        IN /\ Len(call.result.joins) = Len(q.joins) + 1
           /\ JoinAdded.left_table =
                 IF HasDot(left_col) THEN left_col[1]
                 ELSE IF Len(q.tables) > 0 THEN get_ref(q.tables[1]) ELSE ""
           /\ JoinAdded.left_column =
                 IF HasDot(left_col) THEN DotJoin(Tail(left_col))
                 ELSE DotJoin(left_col)
           /\ JoinAdded.right_table =
                 IF HasDot(right_col) THEN right_col[1]
                 ELSE IF Truthy(alias) THEN alias ELSE table
           /\ JoinAdded.right_column =
                 IF HasDot(right_col) THEN DotJoin(Tail(right_col))
                 ELSE DotJoin(right_col)

(***************************************************************************)
(* C28.  For a query built with one from_table followed by joins whose     *)
(* left column refers to an earlier table (a connected chain), every join  *)
(* node of the plan returned by optimize has a join_condition, and both    *)
(* relations named in that condition are leaves of that join node's        *)
(* subtree, whatever order the reordering step chose.                      *)
(***************************************************************************)
\* the query is what one from_table and then joins onto earlier tables give
ConnectedChain(q) ==
    /\ Len(q.tables) = Len(q.joins) + 1
    /\ \A i \in 1..Len(q.joins) :
          /\ q.joins[i].right_table = get_ref(q.tables[i + 1])
          /\ \E j \in 1..i : q.joins[i].left_table = get_ref(q.tables[j])

\* the declared joins a join node's condition is the rendering of
JoinsRendered(q, node) ==
    {i \in 1..Len(q.joins) : JoinCondStr(q.joins[i]) = node.join_condition}

C28_ChainJoinsKeepTheirCondition ==
    (ScenarioPlanned /\ ConnectedChain(scenario.query)) =>
        \A n \in Range(JoinSpine(scenario.plan[1].plan.root)) :
            /\ n.join_condition # NoneStr
            /\ \A i \in JoinsRendered(scenario.query, n) :
                  {scenario.query.joins[i].left_table,
                   scenario.query.joins[i].right_table}
                      \subseteq Range(LeafRefs(n))

(***************************************************************************)
(* C29.  No predicate is lost by optimization: every WHERE predicate of    *)
(* the query, qualified or not, appears in the filter_condition of at      *)
(* least one node of the plan returned by optimize, as it does in the plan *)
(* returned by build_naive_plan.  (Stated for the queries with at least    *)
(* one table, where build_naive_plan has a scan to put the filter on.)     *)
(***************************************************************************)
\* the nodes of a plan whose filter_condition has the predicate
NodesFiltering(root, pred) ==
    {n \in NodesOf(root) : PredStr(pred) \in Range(n.filter_condition)}

C29_NoPredicateLost ==
    (ScenarioPlanned /\ Len(scenario.query.tables) > 0) =>
        \A i \in 1..Len(scenario.query.predicates) :
            NodesFiltering(scenario.plan[1].plan.root,
                           scenario.query.predicates[i]) # {}

(***************************************************************************)
(* Building a query with the fluent interface: the caller makes a Query,   *)
(* calls from_table once and then any of join, where, and_where, or_where, *)
(* group_by, order_by, limit and offset, each on the Query the call before *)
(* returned.                                                               *)
(*   call.fn      the method called last, "Query" for the constructor      *)
(*   call.args    its arguments                                            *)
(*   call.result  the Query it returned                                    *)
(*   call.made    the number of methods called since the constructor       *)
(***************************************************************************)
MaxBuilderCalls == 4

BuilderInit ==
    /\ call = [fn |-> "Query", args |-> <<>>, result |-> EmptyQuery,
               made |-> 0]
    /\ query = EmptyQuery
    /\ naivePlan = <<>>
    /\ optPlan = <<>>
    /\ notes = <<>>
    /\ session = <<>>
    /\ conc = <<>>
    /\ scenario = <<>>

\* the call of a method with its arguments, which returned the Query q
BuilderCalled(fn, args, q) ==
    /\ call.made < MaxBuilderCalls
    /\ call' = [fn |-> fn, args |-> args, result |-> q,
                made |-> call.made + 1]
    /\ UNCHANGED <<query, naivePlan, optPlan, notes, session, conc, scenario>>

\* Query().from_table(table, alias)
BuilderFromTable ==
    \E a \in ScenarioTables :
        /\ call.fn = "Query"
        /\ BuilderCalled("from_table", a, from_table(call.result, a[1], a[2]))

\* .join(table, alias, left_col, right_col)
BuilderJoin ==
    \E a \in ProbeJoinArgs :
        /\ call.fn # "Query"
        /\ BuilderCalled("join", a,
                         join(call.result, a[1], a[2], a[3], a[4]))

\* .where(column, operator, value), .and_where(...), .or_where(...)
BuilderWhere ==
    \E w \in ScenarioWheres :
        /\ call.fn # "Query"
        /\ \/ BuilderCalled("where", w,
                            where(call.result, w[1], w[2], w[3], "AND"))
           \/ BuilderCalled("and_where", w,
                            and_where(call.result, w[1], w[2], w[3]))
           \/ BuilderCalled("or_where", w,
                            or_where(call.result, w[1], w[2], w[3]))

\* .group_by(column), .order_by(column, desc), .limit(n), .offset(n)
BuilderShape ==
    /\ call.fn # "Query"
    /\ \/ BuilderCalled("group_by", <<"c.country">>,
                        group_by(call.result, <<"c.country">>))
       \/ \E o \in OrderByArgs :
             BuilderCalled("order_by", o, order_by(call.result, o[1], o[2]))
       \/ \E n \in LimitArgs :
             BuilderCalled("limit", <<n>>, limit(call.result, n))
       \/ \E n \in LimitArgs :
             BuilderCalled("offset", <<n>>, offset(call.result, n))

BuilderNext ==
    \/ BuilderFromTable
    \/ BuilderJoin
    \/ BuilderWhere
    \/ BuilderShape

BuilderSpec == BuilderInit /\ [][BuilderNext]_vars

\* the caller has called from_table and maybe more
BuilderStarted == call # <<>> /\ "made" \in DOMAIN call /\ call.made > 0

(***************************************************************************)
(* C30.  Query builder invariant: after one from_table call followed by    *)
(* any sequence of join, where, and_where, or_where, group_by, order_by,   *)
(* limit and offset calls, the query has len(tables) = len(joins) + 1 and, *)
(* for every i, the right side of the i-th JoinCondition is the ref of     *)
(* tables[i + 1]; this is the alignment build_naive_plan relies on when it *)
(* pairs joins[i] with tables[i + 1].                                      *)
(***************************************************************************)
C30_JoinsAlignedWithTables ==
    BuilderStarted =>
        /\ Len(call.result.tables) = Len(call.result.joins) + 1
        /\ \A i \in 1..Len(call.result.joins) :
              call.result.joins[i].right_table =
                 get_ref(call.result.tables[i + 1])

\* a query with two joins, one of a table with an alias whose right column
\* is qualified by the table's name and one of a table without an alias,
\* and a call that is not a join after them
C30_Witness ==
    /\ BuilderStarted
    /\ call.fn \notin {"from_table", "join"}
    /\ Len(call.result.joins) = 2
    /\ \E i, j \in 1..2 :
          /\ call.result.tables[i + 1].alias = "o"
          /\ call.result.tables[j + 1].alias = NoneStr
          /\ call.result.joins[i].right_table = "o"
          /\ call.result.joins[j].right_table = "orders"

====
